---- MODULE Spec2Model ----
(***************************************************************************)
(* Model of the KNA archive: the entity store and its data access         *)
(* services, the program-text parser (RoleService.bulk_create_from_text)  *)
(* and the media finalization workflow (move_and_rename_media).           *)
(*                                                                         *)
(* Text values are sequences of one-character strings, so that slugify,   *)
(* strip, split, Path.stem/suffix and secure_filename are computed the    *)
(* way the code computes them.  Python's None is the value None below.    *)
(***************************************************************************)
EXTENDS Integers, Sequences, FiniteSets, TLC

VARIABLES
    members,        \* table member: set of rows
    activities,     \* table activity: set of rows
    roles,          \* table role: set of rows
    nextRoleId,     \* autoincrement of role.id_role
    mediaItems,     \* table media_item: set of rows
    nextMediaId,    \* autoincrement of media_item.id_media
    mediaTypes,     \* table media_type: set of type codes
    appearances,    \* table media_appearance: set of rows
    nextAppId,      \* autoincrement of media_appearance.id_appearance
    staging,        \* names of the files in uploads/
    stagingThumbs,  \* names of the files in uploads/thumbnails/
    resFiles,       \* files below the resources root, as relative paths
    resDirs,        \* directories below the resources root, as relative paths
    mentions,       \* table media_mention: set of rows
    mentionMembers,     \* table mention_member: set of rows
    mentionActivities,  \* table mention_activity: set of rows
    mentionMediaItems,  \* table mention_media_item: set of rows
    req,            \* the requests in progress: per request its position and data
    bulk,           \* the running bulk_create_from_text call, or its last result
    lastRun,        \* history: the bulk_create_from_text call completed just before
    result,         \* the last call made and what it returned
    ops             \* number of calls made so far

vars == <<members, activities, roles, nextRoleId, mediaItems, nextMediaId,
          mediaTypes, appearances, nextAppId, staging, stagingThumbs,
          resFiles, resDirs, mentions, mentionMembers, mentionActivities,
          mentionMediaItems, req, bulk, lastRun, result, ops>>

storeVars == <<members, activities, roles, nextRoleId, mediaItems, nextMediaId,
               mediaTypes, appearances, nextAppId>>

fsVars == <<staging, stagingThumbs, resFiles, resDirs>>

mentionVars == <<mentions, mentionMembers, mentionActivities, mentionMediaItems>>

-----------------------------------------------------------------------------
(* Bounds of the model *)

MaxItems == 2       \* media items created in one behaviour
MaxOpsF == 5        \* calls in one behaviour of the finalization workflow
MaxLines == 2       \* lines of a program text
MaxOpsB == 2        \* calls in one behaviour of the program-text parser
MaxLinks == 2       \* entries of the member_roles list of link_members_to_media
MaxOpsA == 3        \* calls in one behaviour of the Activity services
MaxOpsP == 4        \* calls in one behaviour of the Member services
MaxOpsU == 3        \* calls in one behaviour of the update operations
MaxOpsC == 2        \* calls in one behaviour of the create operations
MaxOpsL == 3        \* calls in one behaviour of the parser with Member deletes
MaxOpsN == 4        \* calls in one behaviour of the MediaMention services
MaxBatch == 2       \* media ids of one bulk-assign request
MaxOpsH == 3        \* uploads and requests in one behaviour of the handlers
MaxOpsY == 4        \* calls in one behaviour of the Activity listing
MaxOpsT == 4        \* calls in one behaviour of the media-type lookup
MaxOpsS == 4        \* uploads and finalize calls in one behaviour of the stepwise finalize
MaxOpsR == 4        \* requests begun in one behaviour of the concurrent creations
MaxOpsG == 4        \* calls in one behaviour of the member-facing reads

-----------------------------------------------------------------------------
(* Text primitives *)

None == <<"None">>

\* Python truthiness of an Optional[str]
Truthy(s) == s # None /\ s # <<>>

UpperChars == <<"A","B","C","D","E","F","G","H","I","J","K","L","M",
                "N","O","P","Q","R","S","T","U","V","W","X","Y","Z">>
LowerChars == <<"a","b","c","d","e","f","g","h","i","j","k","l","m",
                "n","o","p","q","r","s","t","u","v","w","x","y","z">>
DigitChars == <<"0","1","2","3","4","5","6","7","8","9">>

Range(f) == {f[i] : i \in DOMAIN f}

LowerChar(c) ==
    IF c \in Range(UpperChars)
    THEN LowerChars[CHOOSE i \in 1..26 : UpperChars[i] = c]
    ELSE c

\* str.lower()
Lower(s) == [i \in 1..Len(s) |-> LowerChar(s[i])]

IsAlnum(c) == c \in Range(UpperChars) \cup Range(LowerChars) \cup Range(DigitChars)

IsSpace(c) == c = " "

RECURSIVE LStrip(_)
LStrip(s) == IF s # <<>> /\ IsSpace(Head(s)) THEN LStrip(Tail(s)) ELSE s

RECURSIVE RStrip(_)
RStrip(s) ==
    IF s # <<>> /\ IsSpace(s[Len(s)]) THEN RStrip(SubSeq(s, 1, Len(s) - 1)) ELSE s

\* str.strip()
Strip(s) == RStrip(LStrip(s))

\* position of the first / last occurrence of character c in s, 0 if none
FindChar(s, c) ==
    IF \E i \in 1..Len(s) : s[i] = c
    THEN CHOOSE i \in 1..Len(s) : s[i] = c /\ \A j \in 1..(i - 1) : s[j] # c
    ELSE 0

RFindChar(s, c) ==
    IF \E i \in 1..Len(s) : s[i] = c
    THEN CHOOSE i \in 1..Len(s) : s[i] = c /\ \A j \in (i + 1)..Len(s) : s[j] # c
    ELSE 0

\* str.split() without argument: the whitespace-separated tokens
RECURSIVE SplitWords(_)
SplitWords(s) ==
    LET t == LStrip(s)
        e == FindChar(t, " ")
    IN  IF t = <<>> THEN <<>>
        ELSE IF e = 0 THEN <<t>>
        ELSE <<SubSeq(t, 1, e - 1)>> \o SplitWords(SubSeq(t, e + 1, Len(t)))

\* " ".join(parts)
RECURSIVE JoinWords(_)
JoinWords(parts) ==
    IF parts = <<>> THEN <<>>
    ELSE IF Len(parts) = 1 THEN parts[1]
    ELSE parts[1] \o <<" ">> \o JoinWords(Tail(parts))

\* pattern occurs in s as a contiguous substring
Contains(s, pat) ==
    \E i \in 0..(Len(s) - Len(pat)) : SubSeq(s, i + 1, i + Len(pat)) = pat

\* column.ilike("%pat%"): case-insensitive substring match
ILikeContains(col, pat) == Contains(Lower(col), Lower(pat))

RECURSIVE CollapseDashes(_, _)
CollapseDashes(t, afterDash) ==
    IF t = <<>> THEN <<>>
    ELSE IF Head(t) = "-"
         THEN IF afterDash THEN CollapseDashes(Tail(t), TRUE)
              ELSE <<"-">> \o CollapseDashes(Tail(t), TRUE)
         ELSE <<Head(t)>> \o CollapseDashes(Tail(t), FALSE)

\* python-slugify on ASCII text: lower-case, every run of characters other
\* than letters and digits becomes one "-", no "-" at either end
slugify(s) ==
    LET low == [i \in 1..Len(s) |-> IF IsAlnum(s[i]) THEN LowerChar(s[i]) ELSE "-"]
        col == CollapseDashes(low, TRUE)
    IN  IF col # <<>> /\ col[Len(col)] = "-" THEN SubSeq(col, 1, Len(col) - 1) ELSE col

\* pathlib: Path(name).suffix and Path(name).stem of a single path component
PathSuffix(name) ==
    LET i == RFindChar(name, ".")
    IN  IF 1 < i /\ i < Len(name) THEN SubSeq(name, i, Len(name)) ELSE <<>>

PathStem(name) ==
    LET i == RFindChar(name, ".")
    IN  IF 1 < i /\ i < Len(name) THEN SubSeq(name, 1, i - 1) ELSE name

RECURSIVE StripChars(_, _)
StripChars(s, cs) ==
    IF s # <<>> /\ Head(s) \in cs THEN StripChars(Tail(s), cs)
    ELSE IF s # <<>> /\ s[Len(s)] \in cs THEN StripChars(SubSeq(s, 1, Len(s) - 1), cs)
    ELSE s

\* "_".join(parts)
RECURSIVE JoinUnderscore(_)
JoinUnderscore(parts) ==
    IF parts = <<>> THEN <<>>
    ELSE IF Len(parts) = 1 THEN parts[1]
    ELSE parts[1] \o <<"_">> \o JoinUnderscore(Tail(parts))

\* werkzeug secure_filename on ASCII text without path separators
secure_filename(name) ==
    LET joined == JoinUnderscore(SplitWords(name))
        kept   == SelectSeq(joined, LAMBDA c : IsAlnum(c) \/ c \in {"_", ".", "-"})
    IN  StripChars(kept, {".", "_"})

\* decimal text of a counter 1..9
Decimal(k) == <<DigitChars[k + 1]>>

-----------------------------------------------------------------------------
(* Literals *)

NoPath == <<>>              \* storage_path NULL
NoId == -1                   \* Optional[int] None

s_uploads    == <<"u","p","l","o","a","d","s">>
s_thumbnails == <<"t","h","u","m","b","n","a","i","l","s">>
s_overig     == <<"o","v","e","r","i","g">>
s_onbekend   == <<"o","n","b","e","k","e","n","d">>
s_jpg        == <<".","j","p","g">>
s_dash       == <<"-">>

-----------------------------------------------------------------------------
(* Lookups in the store *)

ActivityIds == {a.id_activity : a \in activities}
MemberIds   == {m.id_member : m \in members}
RoleIds     == {r.id_role : r \in roles}
MediaIds    == {m.id_media : m \in mediaItems}
AppIds      == {p.id_appearance : p \in appearances}

ActivityById(id) == CHOOSE a \in activities : a.id_activity = id
MemberById(id)   == CHOOSE m \in members : m.id_member = id
RoleById(id)     == CHOOSE r \in roles : r.id_role = id
MediaById(id)    == CHOOSE m \in mediaItems : m.id_media = id
AppById(id)      == CHOOSE p \in appearances : p.id_appearance = id

\* a file system directory as a function from names to file contents
Put(dir, name, content) ==
    [n \in DOMAIN dir \cup {name} |-> IF n = name THEN content ELSE dir[n]]

Remove(dir, name) == [n \in DOMAIN dir \ {name} |-> dir[n]]

EmptyDir == [n \in {} |-> 0]

\* the requests a behaviour can have in progress, none of them started
Requests == {1, 2}
NoRequests == [r \in Requests |-> [pc |-> "idle"]]

-----------------------------------------------------------------------------
(* utils/file_utils.py: move_and_rename_media *)

\* lines 29-36: where the file of media item m goes
type_subdir(m) == IF Truthy(m.type_media) THEN m.type_media ELSE s_overig

clean_name(m) ==
    slugify(IF Truthy(m.caption) THEN m.caption ELSE PathStem(m.filename))

ext_keeps_case(m) ==
    IF PathSuffix(m.filename) # <<>> THEN PathSuffix(m.filename) ELSE s_jpg

ext(m) ==
    IF Lower(PathSuffix(m.filename)) # <<>> THEN Lower(PathSuffix(m.filename))
    ELSE s_jpg

new_filename(m) == clean_name(m) \o ext(m)

target_dir(m, folder) == <<folder, type_subdir(m)>>

target_path(m, folder) == target_dir(m, folder) \o <<new_filename(m)>>

\* the relationship media_item.activity: the Activity row, if there is one
HasActivity(m) == m.id_activity \in ActivityIds

clobber_unchecked(tpath, overwrite) == FALSE

\* line 45: the destination is taken and may not be replaced
target_taken(tpath, overwrite) == tpath \in DOMAIN resFiles /\ ~overwrite

\* the whole function, on the stored media item id_media
move_and_rename_media(id_media, overwrite) ==
    LET m == MediaById(id_media)
        call == [op |-> "move_and_rename_media", id_media |-> id_media,
                 overwrite |-> overwrite]
    IN
    /\ id_media \in MediaIds
    /\ IF ~Truthy(m.filename)
       THEN /\ result' = call @@ [ret |-> FALSE, at |-> "no filename"]
            /\ UNCHANGED <<mediaItems, fsVars>>
       ELSE IF ~HasActivity(m) \/ ~Truthy(ActivityById(m.id_activity).folder)
       THEN /\ result' = call @@ [ret |-> FALSE, at |-> "no folder"]
            /\ UNCHANGED <<mediaItems, fsVars>>
       ELSE
         LET folder == ActivityById(m.id_activity).folder
             tdir   == target_dir(m, folder)
             tpath  == target_path(m, folder)
             \* line 35: target_dir.mkdir(parents=True, exist_ok=True)
             dirs1  == resDirs \cup {<<folder>>, tdir}
         IN
         IF m.filename \notin DOMAIN staging
         THEN /\ result' = call @@ [ret |-> FALSE, at |-> "source missing"]
              /\ resDirs' = dirs1
              /\ UNCHANGED <<mediaItems, staging, stagingThumbs, resFiles>>
         ELSE IF target_taken(tpath, overwrite)
         THEN /\ result' = call @@ [ret |-> FALSE, at |-> "already exists"]
              /\ resDirs' = dirs1
              /\ UNCHANGED <<mediaItems, staging, stagingThumbs, resFiles>>
         ELSE
           LET hasThumb == m.filename \in stagingThumbs
               files1   == Put(resFiles, tpath, staging[m.filename])
               thumbDir == tdir \o <<s_thumbnails>>
           IN
           /\ staging' = Remove(staging, m.filename)
           /\ stagingThumbs' = stagingThumbs \ {m.filename}
           /\ resFiles' = IF hasThumb
                          THEN Put(files1, thumbDir \o <<new_filename(m)>>, 0)
                          ELSE files1
           /\ resDirs' = IF hasThumb THEN dirs1 \cup {thumbDir} ELSE dirs1
           /\ mediaItems' = (mediaItems \ {m}) \cup
                  {[m EXCEPT !.filename = new_filename(m), !.storage_path = tpath]}
           /\ result' = call @@ [ret |-> TRUE, at |-> "moved"]
    /\ UNCHANGED <<members, activities, roles, nextRoleId, nextMediaId,
                   mediaTypes, appearances, nextAppId, bulk, lastRun, mentionVars>>

-----------------------------------------------------------------------------
(* content_db/services/media_service.py: media types and media items *)

\* the lookup keyed by the code as it was passed
create_or_get_media_type_raw(types, type_code) == types \cup {type_code}

\* create_or_get_media_type: the lookup table after the call
create_or_get_media_type(types, type_code) == types \cup {Lower(Strip(type_code))}

\* create_media_item as a function of the store: the error raised, if any,
\* and the media_type and media_item tables after the call
create_media_item_outcome(id_activity, filename, type_media, storage_path, caption) ==
    IF ~Truthy(id_activity) \/ ~Truthy(filename) \/ ~Truthy(type_media)
    THEN [err |-> "ValueError", types |-> mediaTypes, items |-> mediaItems,
          next |-> nextMediaId]
    ELSE IF id_activity \notin ActivityIds
    THEN [err |-> "ValueError",
          types |-> create_or_get_media_type(mediaTypes, type_media),
          items |-> mediaItems, next |-> nextMediaId]
    ELSE [err |-> "none",
          types |-> create_or_get_media_type(mediaTypes, type_media),
          items |-> mediaItems \cup
                    {[id_media |-> nextMediaId, id_activity |-> id_activity,
                      filename |-> Strip(filename),
                      type_media |-> Lower(Strip(type_media)),
                      caption |-> caption, storage_path |-> storage_path]},
          next |-> nextMediaId + 1]

create_media_item(id_activity, filename, type_media, storage_path, caption) ==
    LET o == create_media_item_outcome(id_activity, filename, type_media,
                                       storage_path, caption)
    IN
    /\ nextMediaId <= MaxItems
    /\ mediaTypes' = o.types
    /\ mediaItems' = o.items
    /\ nextMediaId' = o.next
    /\ result' = [op |-> "create_media_item", id_activity |-> id_activity,
                  filename |-> filename, type_media |-> type_media,
                  err |-> o.err,
                  ret |-> IF o.err = "none" THEN nextMediaId ELSE o.err]
    /\ UNCHANGED <<members, activities, roles, nextRoleId, appearances, nextAppId,
                   fsVars, bulk, lastRun, req, mentionVars>>

\* update_media_item; an argument that is None was not supplied
update_media_item(id_media, filename, type_media, storage_path, caption) ==
    LET fields == {f \in {"filename", "type_media", "storage_path", "caption"} :
                     [filename |-> filename, type_media |-> type_media,
                      storage_path |-> storage_path, caption |-> caption][f] # None}
        supplied == fields # {}
        types1 == IF type_media # None
                  THEN create_or_get_media_type(mediaTypes, type_media)
                  ELSE mediaTypes
        upd(m) == [m EXCEPT
                     !.filename = IF filename # None THEN Strip(filename) ELSE @,
                     !.type_media = IF type_media # None
                                    THEN Lower(Strip(type_media)) ELSE @,
                     !.storage_path = IF storage_path # None THEN storage_path ELSE @,
                     !.caption = IF caption # None THEN caption ELSE @]
    IN
    /\ mediaTypes' = types1
    /\ IF supplied /\ id_media \in MediaIds
       THEN /\ mediaItems' = {IF m.id_media = id_media THEN upd(m) ELSE m :
                                m \in mediaItems}
            /\ result' = [op |-> "update_media_item", id_media |-> id_media,
                          fields |-> fields, ret |-> id_media]
       ELSE /\ mediaItems' = mediaItems
            /\ result' = [op |-> "update_media_item", id_media |-> id_media,
                          fields |-> fields, ret |-> NoId]
    /\ UNCHANGED <<members, activities, roles, nextRoleId, nextMediaId,
                   appearances, nextAppId, fsVars, bulk, lastRun, req, mentionVars>>

-----------------------------------------------------------------------------
(* blueprints/media.py: the upload handler, for a request with one file *)

upload(raw, activity_id) ==
    LET filename == secure_filename(raw)
        o == create_media_item_outcome(activity_id, filename, s_onbekend,
                                       <<s_uploads, filename>>, raw)
    IN
    /\ nextMediaId <= MaxItems
    /\ activity_id \in ActivityIds        \* the form's SelectField choices
    /\ raw # <<>>
    /\ filename # <<>>                    \* file.save on the folder itself fails
    /\ staging' = Put(staging, filename, nextMediaId)
    /\ mediaTypes' = o.types
    /\ mediaItems' = o.items
    /\ nextMediaId' = o.next
    /\ result' = [op |-> "upload", ret |-> o.err]
    /\ UNCHANGED <<members, activities, roles, nextRoleId, appearances, nextAppId,
                   stagingThumbs, resFiles, resDirs, bulk, lastRun, req, mentionVars>>

-----------------------------------------------------------------------------
(* content_db/services/activity_service.py *)

\* delete_activity: a plain DELETE; SQLite does not enforce the foreign keys
delete_activity(id_activity) ==
    /\ activities' = {a \in activities : a.id_activity # id_activity}
    /\ result' = [op |-> "delete_activity", id |-> id_activity,
                  ret |-> id_activity \in ActivityIds]
    /\ UNCHANGED <<members, roles, nextRoleId, mediaItems, nextMediaId, mediaTypes,
                   appearances, nextAppId, fsVars, bulk, lastRun, req, mentionVars>>

-----------------------------------------------------------------------------
(* Inputs and specification of the media finalization workflow *)

s_gala_id    == <<"2","0","2","4","-","G","a","l","a">>
s_gala       == <<"G","a","l","a">>
s_gala_dir   == <<"2","0","2","4","-","g","a","l","a">>
s_rep_id     == <<"2","0","2","4","-","R","e","p">>
s_rep        == <<"R","e","p">>
s_img001     == <<"i","m","g","0","0","1",".","J","P","G">>
s_my_scan    == <<"m","y"," ","s","c","a","n">>
s_opening    == <<"O","p","e","n","i","n","g"," ","N","i","g","h","t","!">>
s_Foto       == <<" ","F","o","t","o">>
s_foto       == <<"f","o","t","o">>
s_poster     == <<"p","o","s","t","e","r",".","p","n","g">>
s_opening_night_jpg ==
    <<"o","p","e","n","i","n","g","-","n","i","g","h","t",".","j","p","g">>

Gala == [id_activity |-> s_gala_id, title |-> s_gala, year |-> 2024,
         folder |-> s_gala_dir]

\* an Activity created without a folder, or with a blank one
Rehearsal(folder) == [id_activity |-> s_rep_id, title |-> s_rep, year |-> 2024,
                      folder |-> folder]

UploadNames == {s_img001, s_my_scan}

\* the arguments of update_media_item the workflow is exercised with
MediaPatches ==
    { [filename |-> None, type_media |-> None, caption |-> s_opening],
      [filename |-> None, type_media |-> <<>>, caption |-> None],
      [filename |-> <<>>, type_media |-> None, caption |-> None],
      [filename |-> None, type_media |-> None, caption |-> <<>>] }

Idle == [state |-> "idle"]
NoRun == [state |-> "none"]

InitF ==
    /\ members = {}
    /\ activities = {Gala, Rehearsal(None)}
    /\ roles = {}
    /\ nextRoleId = 1
    /\ mediaItems = {}
    /\ nextMediaId = 1
    /\ mediaTypes = {}
    /\ appearances = {}
    /\ nextAppId = 1
    /\ staging = EmptyDir
    /\ stagingThumbs = {s_img001}
    /\ resFiles = EmptyDir
    /\ resDirs = {}
    /\ mentions = {}
    /\ mentionMembers = {}
    /\ mentionActivities = {}
    /\ mentionMediaItems = {}
    /\ req = NoRequests
    /\ bulk = Idle
    /\ lastRun = NoRun
    /\ result = [op |-> "init"]
    /\ ops = 0

Upload ==
    /\ ops < MaxOpsF /\ ops' = ops + 1
    /\ \E raw \in UploadNames, a \in ActivityIds : upload(raw, a)

CreateMediaItem ==
    /\ ops < MaxOpsF /\ ops' = ops + 1
    /\ \E a \in {s_gala_id, <<>>} :
          create_media_item(a, s_poster, s_Foto, NoPath, None)

UpdateMediaItem ==
    /\ ops < MaxOpsF /\ ops' = ops + 1
    /\ \E id \in MediaIds, p \in MediaPatches :
          update_media_item(id, p.filename, p.type_media, None, p.caption)

DeleteActivity ==
    /\ ops < MaxOpsF /\ ops' = ops + 1
    /\ delete_activity(s_gala_id)

Finalize ==
    /\ ops < MaxOpsF /\ ops' = ops + 1
    /\ \E id \in MediaIds, ow \in BOOLEAN : move_and_rename_media(id, ow)
    /\ UNCHANGED req

NextF == Upload \/ CreateMediaItem \/ UpdateMediaItem \/ DeleteActivity \/ Finalize

SpecF == InitF /\ [][NextF]_vars

-----------------------------------------------------------------------------
(* Properties of move_and_rename_media *)

\* the step is a call of move_and_rename_media
IsMove == result'.op = "move_and_rename_media"

\* the media item the call is made on, before and after the call
MovedBefore == MediaById(result'.id_media)
MovedAfter  == CHOOSE m \in mediaItems' : m.id_media = result'.id_media

FolderOf(m) == ActivityById(m.id_activity).folder

\* the destination as the specification words it
SpecName(m) ==
    slugify(IF m.caption # None /\ m.caption # <<>> THEN m.caption
            ELSE PathStem(m.filename))
    \o (IF PathSuffix(m.filename) = <<>> THEN <<".","j","p","g">>
        ELSE Lower(PathSuffix(m.filename)))

SpecDest(m) ==
    <<FolderOf(m), IF m.type_media = <<>> THEN s_overig ELSE m.type_media,
      SpecName(m)>>

Finalizable(m) ==
    /\ m.filename # <<>>
    /\ m.id_activity \in ActivityIds
    /\ FolderOf(m) # None /\ FolderOf(m) # <<>>

\* C1: a call on an item with a filename, an Activity with a folder, its file
\* in staging and a free destination returns true, takes the file out of
\* staging, puts it at <folder>/<type or overig>/<slug><ext>, and sets the
\* item's filename and storage_path to that name and path.
C1_MoveSucceeds ==
    [][ (IsMove /\ Finalizable(MovedBefore)
           /\ MovedBefore.filename \in DOMAIN staging
           /\ SpecDest(MovedBefore) \notin DOMAIN resFiles)
        => /\ result'.ret = TRUE
           /\ MovedBefore.filename \notin DOMAIN staging'
           /\ SpecDest(MovedBefore) \in DOMAIN resFiles'
           /\ resFiles'[SpecDest(MovedBefore)] = staging[MovedBefore.filename]
           /\ MovedAfter.filename = SpecName(MovedBefore)
           /\ MovedAfter.storage_path = SpecDest(MovedBefore)
           /\ (MovedBefore.caption = s_opening /\ MovedBefore.filename = s_img001
                 => MovedAfter.filename = s_opening_night_jpg) ]_vars

\* the specification's example: "Opening Night!" / img001.JPG in 2024-gala
C1_Witness ==
    /\ result.op = "move_and_rename_media" /\ result.ret = TRUE
    /\ \E m \in mediaItems :
          /\ m.id_media = result.id_media
          /\ m.filename = s_opening_night_jpg
          /\ m.storage_path = <<s_gala_dir, s_onbekend, s_opening_night_jpg>>
          /\ m.storage_path \in DOMAIN resFiles
    /\ s_img001 \notin DOMAIN staging

\* C2: with a file at the destination and no overwrite the call returns false
\* and changes no file, no directory and no record; a second call on the
\* item just finalized, without overwrite, returns false and leaves the
\* moved file and the record as they are.
C2_NoClobber ==
    [][ /\ (IsMove /\ Finalizable(MovedBefore)
              /\ SpecDest(MovedBefore) \in DOMAIN resFiles
              /\ ~result'.overwrite)
           => (result'.ret = FALSE /\ UNCHANGED <<mediaItems, fsVars>>)
        /\ (IsMove /\ result.op = "move_and_rename_media" /\ result.ret = TRUE
              /\ result'.id_media = result.id_media /\ ~result'.overwrite)
           => (result'.ret = FALSE /\ UNCHANGED <<mediaItems, resFiles>>) ]_vars

C2_Witness ==
    /\ result.op = "move_and_rename_media"
    /\ result.at = "already exists"
    /\ ~result.overwrite
    /\ \E m \in mediaItems :
          /\ m.id_media = result.id_media
          /\ Finalizable(m)
          /\ m.filename \in DOMAIN staging
          /\ SpecDest(m) \in DOMAIN resFiles

\* C3: a call on an item with an empty filename, or without an Activity or
\* folder, or whose file is not in staging, returns false and creates, moves
\* or removes no file or directory and leaves the record unchanged.
C3_FailureIsNoOp ==
    [][ (IsMove /\ (~Finalizable(MovedBefore)
                     \/ MovedBefore.filename \notin DOMAIN staging))
        => (result'.ret = FALSE /\ UNCHANGED <<mediaItems, fsVars>>) ]_vars

-----------------------------------------------------------------------------
(* content_db/services/member_service.py *)

\* create_member as a function of the store: the error raised, if any, and
\* the member table after the call
create_member_outcome(id_member, first_name, last_name, gdpr_permission) ==
    IF ~Truthy(id_member) \/ ~Truthy(first_name) \/ ~Truthy(last_name)
    THEN [err |-> "ValueError", id_member |-> None, members |-> members]
    ELSE IF Strip(id_member) \in MemberIds          \* primary key
    THEN [err |-> "IntegrityError", id_member |-> None, members |-> members]
    ELSE [err |-> "none", id_member |-> Strip(id_member),
          members |-> members \cup
              {[id_member |-> Strip(id_member),
                current_first_name |-> Strip(first_name),
                current_last_name |-> Strip(last_name),
                gdpr_permission |-> gdpr_permission, notes |-> None]}]

\* lines 173-180: the generated id, the base slug or the base with the first
\* free counter
generated_id_without_loop(first_name, last_name) ==
    slugify(last_name \o s_dash \o first_name)

generated_id(first_name, last_name) ==
    LET base_id == slugify(last_name \o s_dash \o first_name)
        numbered(k) == base_id \o s_dash \o Decimal(k)
    IN  IF base_id \notin MemberIds THEN base_id
        ELSE numbered(CHOOSE k \in 1..9 :
                 /\ numbered(k) \notin MemberIds
                 /\ \A j \in 1..(k - 1) : numbered(j) \in MemberIds)

quick_create_member_outcome(first_name, last_name, id_lid) ==
    create_member_outcome(
        IF Truthy(id_lid) THEN id_lid ELSE generated_id(first_name, last_name),
        first_name, last_name, 1)

-----------------------------------------------------------------------------
(* content_db/services/role_service.py *)

\* the delimiter, by default the en dash U+2013, written "~" here
s_delimiter == <<"~">>

\* lines 184-190: the first and last name searched for and created
name_parts(full_name) ==
    LET parts == SplitWords(Strip(full_name))
    IN  IF Len(parts) >= 2
        THEN [first_name |-> JoinWords(SubSeq(parts, 1, Len(parts) - 1)),
              last_name |-> parts[Len(parts)]]
        ELSE [first_name |-> full_name, last_name |-> <<>>]

\* lines 193-196: the rows the name search can return
name_matches(full_name) ==
    {m \in members :
        /\ ILikeContains(m.current_first_name, name_parts(full_name).first_name)
        /\ ILikeContains(m.current_last_name, name_parts(full_name).last_name)}

\* find_or_create_member_by_name: the possible outcomes; the query has no
\* ORDER BY, so .first() may return any of the matching rows
find_or_create_member_by_name(full_name) ==
    IF name_matches(full_name) # {}
    THEN {[err |-> "none", id_member |-> m.id_member, members |-> members] :
            m \in name_matches(full_name)}
    ELSE {quick_create_member_outcome(name_parts(full_name).first_name,
                                      name_parts(full_name).last_name, None)}

\* create_role as a function of the store: no check of the references
create_role_rows(id_activity, id_member, role_name) ==
    roles \cup {[id_role |-> nextRoleId, id_activity |-> id_activity,
                 id_member |-> id_member, role_name |-> role_name]}

\* line 232: the stripped non-blank lines of the text
RECURSIVE program_lines(_)
program_lines(text) ==
    IF text = <<>> THEN <<>>
    ELSE IF Strip(Head(text)) # <<>>
         THEN <<Strip(Head(text))>> \o program_lines(Tail(text))
         ELSE program_lines(Tail(text))

\* lines 241-243: line.split(delimiter, 1) and the two stripped parts
split_line(line) ==
    LET d == FindChar(line, s_delimiter[1])
    IN  [role_name |-> Strip(SubSeq(line, 1, d - 1)),
         actor_name |-> Strip(SubSeq(line, d + 1, Len(line)))]

except_IntegrityError_only(exc) == exc = "IntegrityError"

\* line 273: except Exception
except_Exception(exc) == TRUE

count_every_line(created, outcome) == created + 1

\* line 271: created += 1, reached only after create_role
count_created(created, outcome) ==
    IF outcome = "created" THEN created + 1 ELSE created

\* the call starts: lines 232-234
bulk_start(id_activity, text) ==
    /\ bulk.state # "running"
    /\ bulk' = [state |-> "running", id_activity |-> id_activity, text |-> text,
                lines |-> program_lines(text), i |-> 1, created |-> 0,
                errors |-> <<>>, log |-> <<>>,
                members0 |-> members, roles0 |-> roles]
    /\ lastRun' = IF bulk.state = "done" THEN bulk ELSE NoRun
    /\ result' = [op |-> "bulk_create_from_text", ret |-> "pending"]
    /\ UNCHANGED <<storeVars, fsVars, mentionVars, req>>

\* one pass of the loop at lines 236-274, on line bulk.i
bulk_line ==
    LET line == bulk.lines[bulk.i]
        p    == split_line(line)
        note(kind, text) == [kind |-> kind, text |-> text, line_no |-> bulk.i]
        next(outcome, msgs) ==
            [bulk EXCEPT !.i = @ + 1,
                         !.created = count_created(@, outcome),
                         !.errors = @ \o msgs,
                         !.log = Append(@, outcome)]
    IN
    /\ bulk.state = "running"
    /\ bulk.i <= Len(bulk.lines)
    /\ IF ~Contains(line, s_delimiter)
       THEN /\ bulk' = next("skipped", <<note("no delimiter", line)>>)
            /\ UNCHANGED <<members, roles, nextRoleId>>
       ELSE IF p.role_name = <<>> \/ p.actor_name = <<>>
       THEN /\ bulk' = next("skipped", <<note("empty field", line)>>)
            /\ UNCHANGED <<members, roles, nextRoleId>>
       ELSE \E r \in find_or_create_member_by_name(p.actor_name) :
              IF r.err # "none"
              THEN /\ members' = r.members
                   /\ UNCHANGED <<roles, nextRoleId>>
                   /\ IF except_Exception(r.err)
                      THEN bulk' = next("error", <<note("error", line)>>)
                      ELSE bulk' = [bulk EXCEPT !.state = "raised"]
              ELSE IF \E x \in roles : /\ x.id_activity = bulk.id_activity
                                       /\ x.id_member = r.id_member
                                       /\ x.role_name = p.role_name
              THEN /\ members' = r.members
                   /\ UNCHANGED <<roles, nextRoleId>>
                   /\ bulk' = next("exists",
                         <<note("already exists",
                                p.role_name \o <<" ">> \o s_delimiter \o <<" ">>
                                \o p.actor_name)>>)
              ELSE /\ members' = r.members
                   /\ roles' = create_role_rows(bulk.id_activity, r.id_member,
                                                p.role_name)
                   /\ nextRoleId' = nextRoleId + 1
                   /\ bulk' = next("created", <<>>)
    /\ UNCHANGED <<activities, mediaItems, nextMediaId, mediaTypes, appearances,
                   nextAppId, fsVars, lastRun, req, mentionVars, result>>

\* lines 276-277: the final flush and the return
bulk_return ==
    /\ bulk.state = "running"
    /\ bulk.i > Len(bulk.lines)
    /\ bulk' = [bulk EXCEPT !.state = "done"]
    /\ result' = [op |-> "bulk_create_from_text",
                  ret |-> <<bulk.created, bulk.errors>>]
    /\ UNCHANGED <<storeVars, fsVars, lastRun, req, mentionVars>>

-----------------------------------------------------------------------------
(* Inputs and specification of the program-text parser *)

s_Bob == <<"B","o","b">>
s_Bo  == <<"B","o">>
s_Lee == <<"L","e","e">>
s_Ham == <<"H","a","m">>
s_Dir == <<"D","i","r">>
s_lee_bob == <<"l","e","e","-","b","o","b">>
s_lee_bo  == <<"l","e","e","-","b","o">>
s_no_such_id == <<"1","9","9","9","-","X">>

l_ham_bo_lee  == <<"H","a","m"," ","~"," ","B","o"," ","L","e","e">>
l_dir_bob_lee == <<"D","i","r","~"," ","B","o","b"," "," ","L","e","e"," ">>
l_ham_bob     == <<"H","a","m"," ","~"," ","B","o","b">>
l_pause       == <<"P","a","u","s","e">>
l_dir_nobody  == <<"D","i","r"," ","~"," ">>
l_blank       == <<" ">>

ProgramLines ==
    {l_ham_bo_lee, l_dir_bob_lee, l_ham_bob, l_pause, l_dir_nobody, l_blank}

ProgramTexts ==
    UNION {[1..n -> ProgramLines] : n \in 1..MaxLines}

BobLee == [id_member |-> s_lee_bob, current_first_name |-> s_Bob,
           current_last_name |-> s_Lee, gdpr_permission |-> 1, notes |-> None]

InitB ==
    /\ members \in {{}, {BobLee}}
    /\ activities = {Gala}
    /\ roles = {}
    /\ nextRoleId = 1
    /\ mediaItems = {}
    /\ nextMediaId = 1
    /\ mediaTypes = {}
    /\ appearances = {}
    /\ nextAppId = 1
    /\ staging = EmptyDir
    /\ stagingThumbs = {}
    /\ resFiles = EmptyDir
    /\ resDirs = {}
    /\ mentions = {}
    /\ mentionMembers = {}
    /\ mentionActivities = {}
    /\ mentionMediaItems = {}
    /\ req = NoRequests
    /\ bulk = Idle
    /\ lastRun = NoRun
    /\ result = [op |-> "init"]
    /\ ops = 0

BulkStart ==
    /\ ops < MaxOpsB /\ ops' = ops + 1
    /\ \E a \in {s_gala_id, s_no_such_id}, text \in ProgramTexts :
          bulk_start(a, text)

BulkLine == bulk_line /\ UNCHANGED ops

BulkReturn == bulk_return /\ UNCHANGED ops

NextB == BulkStart \/ BulkLine \/ BulkReturn

SpecB == InitB /\ [][NextB]_vars

-----------------------------------------------------------------------------
(* Properties of bulk_create_from_text *)

\* the step processes one line of the text
IsLineStep == bulk.state = "running" /\ bulk.i <= Len(bulk.lines)

CurrentLine == bulk.lines[bulk.i]

\* the parts of a line as the specification words them: split once at the
\* first delimiter, both sides trimmed
HasDelimiter(line) == \E d \in 1..Len(line) : line[d] = "~"
RoleNameOf(line) == Strip(SubSeq(line, 1, FindChar(line, "~") - 1))
ActorNameOf(line) == Strip(SubSeq(line, FindChar(line, "~") + 1, Len(line)))

WellFormed(line) ==
    HasDelimiter(line) /\ RoleNameOf(line) # <<>> /\ ActorNameOf(line) # <<>>

Tokens(name) == SplitWords(name)
SingleToken(name) == Len(Tokens(name)) = 1

\* last token = last name, remainder = first name; one token = first name only
FirstNameOf(name) ==
    IF SingleToken(name) THEN name
    ELSE JoinWords(SubSeq(Tokens(name), 1, Len(Tokens(name)) - 1))
LastNameOf(name) ==
    IF SingleToken(name) THEN <<>> ELSE Tokens(name)[Len(Tokens(name))]

Matches(m, name) ==
    /\ ILikeContains(m.current_first_name, FirstNameOf(name))
    /\ ILikeContains(m.current_last_name, LastNameOf(name))

NoMatch(name) == \A m \in members : ~Matches(m, name)

HasRole(rs, a, mid, rname) ==
    \E r \in rs : r.id_activity = a /\ r.id_member = mid /\ r.role_name = rname

\* exactly one Role was added, for the triple (a, mid, rname)
OneRoleAdded(a, mid, rname) ==
    \E r \in roles' \ roles :
        /\ roles' = roles \cup {r}
        /\ r.id_role \notin RoleIds
        /\ r.id_activity = a /\ r.id_member = mid /\ r.role_name = rname

\* the Member the name of the line resolves to: an existing match, or when
\* there is none a new Member named by the last-token rule
ResolvedTo(mid, name) ==
    \/ /\ mid \in MemberIds
       /\ Matches(MemberById(mid), name)
       /\ members' = members
    \/ /\ mid \notin MemberIds
       /\ NoMatch(name)
       /\ \E m \in members' \ members :
            /\ members' = members \cup {m}
            /\ m.id_member = mid
            /\ m.current_first_name = FirstNameOf(name)
            /\ m.current_last_name = LastNameOf(name)

LineContract(line) ==
    IF WellFormed(line)
    THEN \E mid \in {m.id_member : m \in members'} :
            /\ ResolvedTo(mid, ActorNameOf(line))
            /\ IF HasRole(roles, bulk.id_activity, mid, RoleNameOf(line))
               THEN roles' = roles
               ELSE OneRoleAdded(bulk.id_activity, mid, RoleNameOf(line))
    ELSE /\ roles' = roles
         /\ members' = members
         /\ Len(bulk'.errors) = Len(bulk.errors) + 1
         /\ bulk'.errors[Len(bulk'.errors)].kind \in {"no delimiter", "empty field"}

\* C4: each well-formed line whose (activity, resolved member, role name) is
\* not yet stored creates exactly one Role; a line without delimiter or with
\* an empty side yields one skip message and creates no Role and no Member;
\* a new Member gets the last token as last name and the rest as first name.
C4_LineCreatesRole == [][ IsLineStep => LineContract(CurrentLine) ]_vars

\* the contract of C4 on the lines other than an unmatched one-token name
LineContractButOneToken ==
    [][ (IsLineStep /\ ~(WellFormed(CurrentLine)
                          /\ SingleToken(ActorNameOf(CurrentLine))
                          /\ NoMatch(ActorNameOf(CurrentLine))))
        => LineContract(CurrentLine) ]_vars

\* C8: a one-token actor name that matches no Member creates a Member with
\* that first name and an empty last name, and the Role is created for it.
C8_OneTokenCreatesMember ==
    [][ (IsLineStep /\ WellFormed(CurrentLine)
           /\ SingleToken(ActorNameOf(CurrentLine))
           /\ NoMatch(ActorNameOf(CurrentLine)))
        => \E m \in members' \ members :
              /\ m.current_first_name = ActorNameOf(CurrentLine)
              /\ m.current_last_name = <<>>
              /\ OneRoleAdded(bulk.id_activity, m.id_member,
                              RoleNameOf(CurrentLine)) ]_vars

\* C5: a second call with the same text for the same Activity, right after
\* the first, creates no Role and no Member, and every line that created a
\* Role in the first call is reported as already existing in the second.
C5_SecondRunIdempotent ==
    (bulk.state = "done" /\ lastRun.state = "done"
       /\ lastRun.text = bulk.text /\ lastRun.id_activity = bulk.id_activity)
    => /\ bulk.created = 0
       /\ roles = bulk.roles0
       /\ members = bulk.members0
       /\ \A i \in DOMAIN lastRun.log :
             lastRun.log[i] = "created" => bulk.log[i] = "exists"

NonBlankCount(text) == Cardinality({i \in DOMAIN text : Strip(text[i]) # <<>>})

\* C6: the call never raises: it returns (count, messages); a line that fails
\* is reported by a message for that line and the later lines are processed.
C6_NeverRaises ==
    /\ bulk.state # "raised"
    /\ bulk.state = "done" =>
         /\ result.ret = <<bulk.created, bulk.errors>>
         /\ Len(bulk.log) = NonBlankCount(bulk.text)
         /\ \A i \in DOMAIN bulk.log :
               bulk.log[i] = "error" =>
                  \E k \in DOMAIN bulk.errors :
                      /\ bulk.errors[k].line_no = i
                      /\ bulk.errors[k].kind = "error"
                      /\ bulk.errors[k].text = bulk.lines[i]

C6_Witness ==
    /\ bulk.state = "done"
    /\ bulk.id_activity = s_no_such_id
    /\ \E i, j \in DOMAIN bulk.log :
          i < j /\ bulk.log[i] = "error" /\ bulk.log[j] = "created"

\* what C7 says of a completed call
CountsAgree ==
    /\ bulk.roles0 \subseteq roles
    /\ bulk.created = Cardinality(roles \ bulk.roles0)
    /\ Len(bulk.errors) = Cardinality({i \in DOMAIN bulk.log : bulk.log[i] # "created"})
    /\ \A k \in DOMAIN bulk.errors : bulk.log[bulk.errors[k].line_no] # "created"
    /\ \A k, n \in DOMAIN bulk.errors :
          k < n => bulk.errors[k].line_no < bulk.errors[n].line_no
    /\ bulk.created + Len(bulk.errors) = NonBlankCount(bulk.text)

\* C7: the returned count is the number of Roles the call added, the messages
\* are one per non-blank line that created no Role, in line order, and count
\* plus messages is the number of non-blank lines.
C7_CountAndMessages ==
    [][ /\ IsLineStep =>
             /\ Len(bulk'.log) = bulk.i
             /\ (bulk'.log[bulk.i] = "created") <=> (roles' # roles)
             /\ roles \subseteq roles'
        /\ bulk'.state = "done" =>
             /\ CountsAgree'
             /\ result'.ret = <<bulk'.created, bulk'.errors>> ]_vars

C7_Witness ==
    /\ bulk.state = "done"
    /\ bulk.created = 1
    /\ Len(bulk.errors) = 1
    /\ NonBlankCount(bulk.text) = 2
    /\ Len(bulk.text) = 2

-----------------------------------------------------------------------------
(* content_db/services/media_service.py: media appearances *)

\* lines 182-190: the supplied Role exists and is of the media item's Activity
role_fits_media(id_media, id_role) ==
    /\ id_role \in RoleIds
    /\ RoleById(id_role).id_activity = MediaById(id_media).id_activity

\* create_media_appearance as a function of the store: the error raised.
\* Line 182 tests the truth of id_role, so None and 0 both skip the Role checks.
\* The row is built without id_activity (lines 192-199), a NOT NULL column
\* (models.py line 180), so the flush at line 201 is rejected by the store.
create_media_appearance_outcome(id_media, id_member, id_role) ==
    IF id_media \notin MediaIds THEN "ValueError"
    ELSE IF id_member \notin MemberIds THEN "ValueError"
    ELSE IF id_role # NoId /\ id_role # 0 /\ ~role_fits_media(id_media, id_role)
    THEN "ValueError"
    ELSE "IntegrityError"

create_media_appearance(id_media, id_member, id_role) ==
    /\ result' = [op |-> "create_media_appearance", id_media |-> id_media,
                  id_member |-> id_member, id_role |-> id_role,
                  ret |-> create_media_appearance_outcome(id_media, id_member,
                                                          id_role)]
    /\ UNCHANGED <<storeVars, fsVars, bulk, lastRun, req, mentionVars>>

\* update_media_appearance; an argument that is NoId / None was not supplied
update_media_appearance(id_appearance, id_role, appearance_context) ==
    LET fields == (IF id_role # NoId THEN {"id_role"} ELSE {})
                  \cup (IF appearance_context # None THEN {"appearance_context"}
                        ELSE {})
        supplied == fields # {}
        upd(p) == [p EXCEPT
                     !.id_role = IF id_role # NoId THEN id_role ELSE @,
                     !.appearance_context =
                         IF appearance_context # None THEN appearance_context
                         ELSE @]
    IN
    /\ IF supplied /\ id_appearance \in AppIds
       THEN /\ appearances' = {IF p.id_appearance = id_appearance THEN upd(p)
                               ELSE p : p \in appearances}
            /\ result' = [op |-> "update_media_appearance",
                          id_appearance |-> id_appearance, fields |-> fields,
                          ret |-> id_appearance]
       ELSE /\ appearances' = appearances
            /\ result' = [op |-> "update_media_appearance",
                          id_appearance |-> id_appearance, fields |-> fields,
                          ret |-> NoId]
    /\ UNCHANGED <<members, activities, roles, nextRoleId, mediaItems,
                   nextMediaId, mediaTypes, nextAppId, fsVars, bulk, lastRun, req, mentionVars>>

\* link_members_to_media: the loop stops at the first call that raises
RECURSIVE link_members_outcome(_, _)
link_members_outcome(id_media, member_roles) ==
    IF member_roles = <<>> THEN "none"
    ELSE LET e == create_media_appearance_outcome(
                      id_media, Head(member_roles).id_member,
                      Head(member_roles).id_role)
         IN  IF e # "none" THEN e
             ELSE link_members_outcome(id_media, Tail(member_roles))

link_members_to_media(id_media, member_roles) ==
    /\ result' = [op |-> "link_members_to_media", id_media |-> id_media,
                  ret |-> link_members_outcome(id_media, member_roles)]
    /\ UNCHANGED <<storeVars, fsVars, bulk, lastRun, req, mentionVars>>

-----------------------------------------------------------------------------
(* Inputs and specification of the media appearance services.  The store   *)
(* starts as content_db/load_from_excel.py leaves it for a small workbook: *)
(* two Activities, one Member, a Role in each Activity, and one Bestand    *)
(* row per Activity, the first with the Member in column lid_0.            *)

s_scan1 == <<"s","c","a","n","1",".","j","p","g">>
s_scan2 == <<"s","c","a","n","2",".","j","p","g">>
s_ctx   == <<"l","i","n","k","s">>
s_nobody == <<"n","o","b","o","d","y">>

\* load_from_excel.py lines 143-153
LoadedRoles ==
    { [id_role |-> 1, id_activity |-> s_gala_id, id_member |-> s_lee_bob,
       role_name |-> s_Ham],
      [id_role |-> 2, id_activity |-> s_rep_id, id_member |-> s_lee_bob,
       role_name |-> s_Dir] }

\* load_from_excel.py lines 171-182
LoadedItem(id, act, filename) ==
    [id_media |-> id, id_activity |-> act, filename |-> filename,
     type_media |-> s_foto, caption |-> None, storage_path |-> NoPath]

\* load_from_excel.py lines 191-199
LoadedAppearance(id, item, member) ==
    [id_appearance |-> id, id_media |-> item.id_media, id_member |-> member,
     id_role |-> NoId, id_activity |-> item.id_activity,
     appearance_context |-> None]

InitM ==
    /\ members = {BobLee}
    /\ activities = {Gala, Rehearsal(None)}
    /\ roles = LoadedRoles
    /\ nextRoleId = 3
    /\ mediaItems = {LoadedItem(1, s_gala_id, s_scan1),
                     LoadedItem(2, s_rep_id, s_scan2)}
    /\ nextMediaId = 3
    /\ mediaTypes = {s_foto}
    /\ appearances = {LoadedAppearance(1, LoadedItem(1, s_gala_id, s_scan1),
                                       s_lee_bob)}
    /\ nextAppId = 2
    /\ staging = EmptyDir
    /\ stagingThumbs = {}
    /\ resFiles = EmptyDir
    /\ resDirs = {}
    /\ mentions = {}
    /\ mentionMembers = {}
    /\ mentionActivities = {}
    /\ mentionMediaItems = {}
    /\ req = NoRequests
    /\ bulk = Idle
    /\ lastRun = NoRun
    /\ result = [op |-> "init"]
    /\ ops = 0

\* ids offered to the calls: the stored ones and the next, unused one
MediaIdInputs  == 1..nextMediaId
RoleIdInputs   == {NoId} \cup 0..nextRoleId
AppIdInputs    == 1..nextAppId
MemberIdInputs == {s_lee_bob, s_nobody}

\* the entries of a member_roles list: no Role, or the last stored Role
LinkRoleInputs == {NoId, nextRoleId - 1}

MemberRoleLists ==
    UNION {[1..n -> [id_member : MemberIdInputs, id_role : LinkRoleInputs]] :
             n \in 0..MaxLinks}

CreateMediaAppearance ==
    /\ \E im \in MediaIdInputs, mem \in MemberIdInputs, ir \in RoleIdInputs :
          create_media_appearance(im, mem, ir)
    /\ UNCHANGED ops

UpdateMediaAppearance ==
    /\ \E ia \in AppIdInputs, ir \in RoleIdInputs, ctx \in {None, s_ctx} :
          update_media_appearance(ia, ir, ctx)
    /\ UNCHANGED ops

LinkMembersToMedia ==
    /\ \E im \in MediaIdInputs, l \in MemberRoleLists :
          link_members_to_media(im, l)
    /\ UNCHANGED ops

UpdateMediaItemM ==
    /\ \E im \in MediaIdInputs, c \in {None, s_opening} :
          update_media_item(im, None, None, None, c)
    /\ UNCHANGED ops

NextM == CreateMediaAppearance \/ UpdateMediaAppearance \/ LinkMembersToMedia
         \/ UpdateMediaItemM

SpecM == InitM /\ [][NextM]_vars

-----------------------------------------------------------------------------
(* Properties of the media appearance services *)

IsCreateAppearance == result'.op = "create_media_appearance"

\* C9: create_media_appearance with a Role of another Activity than the
\* MediaItem's fails with a validation error and adds no row; so it does
\* when the MediaItem, the Member or the supplied Role does not exist.
C9_MismatchRejected ==
    [][ (IsCreateAppearance
           /\ \/ result'.id_media \notin MediaIds
              \/ result'.id_member \notin MemberIds
              \/ /\ result'.id_role # NoId
                 /\ \/ result'.id_role \notin RoleIds
                    \/ RoleById(result'.id_role).id_activity
                         # MediaById(result'.id_media).id_activity)
        => (result'.ret = "ValueError" /\ appearances' = appearances) ]_vars

\* The same contract for the calls whose id_role is not 0.
MismatchRejectedButZero ==
    [][ (IsCreateAppearance
           /\ result'.id_role # 0
           /\ \/ result'.id_media \notin MediaIds
              \/ result'.id_member \notin MemberIds
              \/ /\ result'.id_role # NoId
                 /\ \/ result'.id_role \notin RoleIds
                    \/ RoleById(result'.id_role).id_activity
                         # MediaById(result'.id_media).id_activity)
        => (result'.ret = "ValueError" /\ appearances' = appearances) ]_vars

MismatchSeen ==
    /\ result.op = "create_media_appearance"
    /\ result.ret = "ValueError"
    /\ result.id_media \in MediaIds
    /\ result.id_member \in MemberIds
    /\ result.id_role \in RoleIds
    /\ RoleById(result.id_role).id_activity # MediaById(result.id_media).id_activity

\* C10: every MediaAppearance that has a Role refers to a Role of the same
\* Activity as the appearance's MediaItem.
C10_RoleOfSameActivity ==
    \A p \in appearances :
        p.id_role # NoId =>
           /\ p.id_role \in RoleIds
           /\ p.id_media \in MediaIds
           /\ RoleById(p.id_role).id_activity = MediaById(p.id_media).id_activity

\* the call is acceptable: the MediaItem and the Member exist and the Role,
\* if one is given, is of the MediaItem's Activity
AcceptableAppearance ==
    /\ result'.id_media \in MediaIds
    /\ result'.id_member \in MemberIds
    /\ \/ result'.id_role = NoId
       \/ /\ result'.id_role \in RoleIds
          /\ RoleById(result'.id_role).id_activity
               = MediaById(result'.id_media).id_activity

\* C11: an acceptable create_media_appearance call succeeds and stores one
\* new row whose id_activity is the Activity of its MediaItem; every stored
\* MediaAppearance has the id_activity of its MediaItem.
C11_CreateStoresActivity ==
    [][ /\ (IsCreateAppearance /\ AcceptableAppearance) =>
             \E p \in appearances' \ appearances :
                /\ result'.ret = p.id_appearance
                /\ p.id_media = result'.id_media
                /\ p.id_member = result'.id_member
                /\ p.id_activity = MediaById(p.id_media).id_activity
        /\ \A p \in appearances' :
              p.id_media \in MediaIds =>
                 p.id_activity = MediaById(p.id_media).id_activity ]_vars

\* What does hold: no create_media_appearance call stores a row, and the
\* rows of the store keep the Activity of their MediaItem.
CreateNeverStores ==
    [][ /\ IsCreateAppearance =>
             /\ appearances' = appearances
             /\ result'.ret \in {"ValueError", "IntegrityError"}
        /\ \A p \in appearances' :
              p.id_media \in MediaIds =>
                 p.id_activity = MediaById(p.id_media).id_activity ]_vars

-----------------------------------------------------------------------------
(* content_db/services/activity_service.py: Activity create and update *)

\* int(text) of a text of decimal digits
RECURSIVE ParseInt(_)
ParseInt(s) ==
    IF s = <<>> THEN 0
    ELSE 10 * ParseInt(SubSeq(s, 1, Len(s) - 1))
         + (CHOOSE d \in 0..9 : DigitChars[d + 1] = s[Len(s)])

IsDigits(s) == s # <<>> /\ \A i \in 1..Len(s) : s[i] \in Range(DigitChars)

\* line 34: the required fields, tested for truth
create_activity_rejects(id_activity, title) == ~Truthy(id_activity) \/ ~Truthy(title)

\* create_activity as a function of the store: the error raised, if any, and
\* the activity table after the call
create_activity_outcome(id_activity, title, year, folder) ==
    IF create_activity_rejects(id_activity, title)
    THEN [err |-> "ValueError", activities |-> activities]
    ELSE IF Strip(id_activity) \in ActivityIds          \* primary key
    THEN [err |-> "IntegrityError", activities |-> activities]
    ELSE [err |-> "none",
          activities |-> activities \cup
              {[id_activity |-> Strip(id_activity), title |-> Strip(title),
                year |-> year,
                folder |-> IF Truthy(folder) THEN Strip(folder) ELSE None]}]

create_activity(id_activity, title, year, folder) ==
    LET o == create_activity_outcome(id_activity, title, year, folder)
    IN
    /\ activities' = o.activities
    /\ result' = [op |-> "create_activity", id_activity |-> id_activity,
                  title |-> title, folder |-> folder,
                  err |-> o.err,
                  ret |-> IF o.err = "none" THEN Strip(id_activity) ELSE None]
    /\ UNCHANGED <<members, roles, nextRoleId, mediaItems, nextMediaId, mediaTypes,
                   appearances, nextAppId, fsVars, bulk, lastRun, req, mentionVars>>

\* lines 118-119: if not values: return None
update_goes_on(supplied) == supplied

\* update_activity; a text argument that is None, or a year that is NoId,
\* was not supplied
update_activity(id_activity, title, year, folder) ==
    LET fields == (IF title # None THEN {"title"} ELSE {})
                  \cup (IF year # NoId THEN {"year"} ELSE {})
                  \cup (IF folder # None THEN {"folder"} ELSE {})
        supplied == fields # {}
        upd(a) == [a EXCEPT
                     !.title = IF title # None THEN Strip(title) ELSE @,
                     !.year = IF year # NoId THEN year ELSE @,
                     !.folder = IF folder = None THEN @
                                ELSE IF folder # <<>> THEN Strip(folder)
                                ELSE None]
    IN
    /\ IF update_goes_on(supplied) /\ id_activity \in ActivityIds
       THEN /\ activities' = {IF a.id_activity = id_activity THEN upd(a) ELSE a :
                                a \in activities}
            /\ result' = [op |-> "update_activity", id |-> id_activity,
                          fields |-> fields, err |-> "none", ret |-> id_activity]
       ELSE /\ activities' = activities
            /\ result' = [op |-> "update_activity", id |-> id_activity,
                          fields |-> fields, err |-> "none", ret |-> None]
    /\ UNCHANGED <<members, roles, nextRoleId, mediaItems, nextMediaId, mediaTypes,
                   appearances, nextAppId, fsVars, bulk, lastRun, req, mentionVars>>

-----------------------------------------------------------------------------
(* The Activity creation handlers *)

\* wtforms DataRequired on the title and year fields
form_valid(title, year) == Strip(title) # <<>> /\ Strip(year) # <<>>

\* title[:30]
First30(s) == IF Len(s) > 30 THEN SubSeq(s, 1, 30) ELSE s

\* app.py activity_new: the folder is passed on as typed, or None
activity_new(title, year, folder) ==
    LET o == create_activity_outcome(year \o s_dash \o First30(title), title,
                                     ParseInt(Strip(year)),
                                     IF folder # <<>> THEN folder ELSE None)
        rec(ret) == [op |-> "activity_new", title |-> title, year |-> year,
                     folder |-> folder, ret |-> ret]
    IN
    /\ IF ~form_valid(title, year)
       THEN activities' = activities /\ result' = rec("form shown")
       ELSE IF ~IsDigits(Strip(year))
       THEN activities' = activities /\ result' = rec("ValueError")
       ELSE /\ activities' = o.activities
            /\ result' = rec(IF o.err = "none" THEN "created" ELSE o.err)
    /\ UNCHANGED <<members, roles, nextRoleId, mediaItems, nextMediaId, mediaTypes,
                   appearances, nextAppId, fsVars, bulk, lastRun, req, mentionVars>>

\* blueprints/activity.py new, lines 46-52: the folder before the counter loop
new_base_folder(title, year, folder) ==
    IF folder = <<>> \/ Strip(folder) = <<>>
    THEN year \o s_dash \o slugify(Strip(title))
    ELSE slugify(Strip(folder))

\* blueprints/activity.py new: the model classes derive from a plain
\* DeclarativeBase (models.py line 15), which has no query attribute, so the
\* loop condition at line 56 raises AttributeError before anything is stored
new(title, year, folder) ==
    /\ result' = [op |-> "new", title |-> title, year |-> year,
                  folder |-> folder,
                  base_folder |-> new_base_folder(title, year, folder),
                  ret |-> IF form_valid(title, year) THEN "AttributeError"
                          ELSE "form shown"]
    /\ UNCHANGED <<storeVars, fsVars, bulk, lastRun, req, mentionVars>>

-----------------------------------------------------------------------------
(* Inputs and specification of the Activity services *)

s_blank    == <<" ", " ">>
s_2024     == <<"2","0","2","4">>
s_rep_dir  == <<" ","2","0","2","4","-","r","e","p">>

TitleInputs  == {s_gala, s_blank}
FolderInputs == {<<>>, s_gala_dir}

InitA ==
    /\ members = {}
    /\ activities = {}
    /\ roles = {}
    /\ nextRoleId = 1
    /\ mediaItems = {}
    /\ nextMediaId = 1
    /\ mediaTypes = {}
    /\ appearances = {}
    /\ nextAppId = 1
    /\ staging = EmptyDir
    /\ stagingThumbs = {}
    /\ resFiles = EmptyDir
    /\ resDirs = {}
    /\ mentions = {}
    /\ mentionMembers = {}
    /\ mentionActivities = {}
    /\ mentionMediaItems = {}
    /\ req = NoRequests
    /\ bulk = Idle
    /\ lastRun = NoRun
    /\ result = [op |-> "init"]
    /\ ops = 0

ActivityNew ==
    /\ ops < MaxOpsA /\ ops' = ops + 1
    /\ \E t \in TitleInputs, f \in FolderInputs : activity_new(t, s_2024, f)

New ==
    /\ ops < MaxOpsA /\ ops' = ops + 1
    /\ \E t \in TitleInputs, f \in FolderInputs : new(t, s_2024, f)

CreateActivity ==
    /\ ops < MaxOpsA /\ ops' = ops + 1
    /\ \E id \in {s_gala_id, s_rep_id, s_blank, <<>>}, t \in {s_rep, s_blank, <<>>},
          f \in {None, s_gala_dir, s_rep_dir} :
          create_activity(id, t, 2024, f)

UpdateActivity ==
    /\ ops < MaxOpsA /\ ops' = ops + 1
    /\ \E id \in {s_gala_id, s_rep_id}, t \in {None, s_rep}, y \in {NoId, 1999},
          f \in {None, <<>>, s_gala_dir} :
          update_activity(id, t, y, f)

DeleteActivityA ==
    /\ ops < MaxOpsA /\ ops' = ops + 1
    /\ \E id \in {s_gala_id, s_rep_id} : delete_activity(id)

NextA == ActivityNew \/ New \/ CreateActivity \/ UpdateActivity \/ DeleteActivityA

SpecA == InitA /\ [][NextA]_vars

-----------------------------------------------------------------------------
(* Properties of the Activity services *)

Folders == {a.folder : a \in activities} \ {None}

\* the folder the specification derives for a title and year
DerivedFolder(title, year) ==
    LET base == year \o s_dash \o slugify(title)
        numbered(k) == base \o s_dash \o Decimal(k)
    IN  IF base \notin Folders THEN base
        ELSE numbered(CHOOSE k \in 1..9 :
                 /\ numbered(k) \notin Folders
                 /\ \A j \in 1..(k - 1) : numbered(j) \in Folders)

IsCreationHandler == result'.op \in {"activity_new", "new"}

\* C12: a creation handler called with a valid form and no folder stores an
\* Activity whose folder is "<year>-<slugify(title)>", or that base with the
\* first free "-<k>" when an Activity already has the base folder.
C12_DerivedFolder ==
    [][ (IsCreationHandler /\ form_valid(result'.title, result'.year)
           /\ Strip(result'.folder) = <<>>)
        => \E a \in activities' \ activities :
              a.folder = DerivedFolder(result'.title, result'.year) ]_vars

\* C13: no two Activities have the same folder name.
C13_FoldersUnique ==
    \A a, b \in activities :
        (a # b /\ a.folder # None) => a.folder # b.folder

-----------------------------------------------------------------------------
(* content_db/services/member_service.py: the Member operations *)

create_member(id_member, first_name, last_name) ==
    LET o == create_member_outcome(id_member, first_name, last_name, 1)
    IN
    /\ members' = o.members
    /\ result' = [op |-> "create_member", id_member |-> id_member,
                  first_name |-> first_name, last_name |-> last_name,
                  err |-> o.err, ret |-> o.id_member]
    /\ UNCHANGED <<activities, roles, nextRoleId, mediaItems, nextMediaId,
                   mediaTypes, appearances, nextAppId, fsVars, bulk, lastRun, req, mentionVars>>

quick_create_member(first_name, last_name, id_lid) ==
    LET o == quick_create_member_outcome(first_name, last_name, id_lid)
    IN
    /\ members' = o.members
    /\ result' = [op |-> "quick_create_member", first_name |-> first_name,
                  last_name |-> last_name, id_lid |-> id_lid,
                  err |-> o.err, ret |-> o.id_member]
    /\ UNCHANGED <<activities, roles, nextRoleId, mediaItems, nextMediaId,
                   mediaTypes, appearances, nextAppId, fsVars, bulk, lastRun, req, mentionVars>>

\* delete_member: a plain DELETE; SQLite does not enforce the foreign keys
delete_member(id_member) ==
    /\ members' = {m \in members : m.id_member # id_member}
    /\ result' = [op |-> "delete_member", id |-> id_member,
                  ret |-> id_member \in MemberIds]
    /\ UNCHANGED <<activities, roles, nextRoleId, mediaItems, nextMediaId,
                   mediaTypes, appearances, nextAppId, fsVars, bulk, lastRun, req, mentionVars>>

-----------------------------------------------------------------------------
(* Inputs and specification of the Member services *)

s_bang     == <<"!">>
s_lee_bob_1 == <<"l","e","e","-","b","o","b","-","1">>

InitP ==
    /\ members \in {{}, {BobLee}}
    /\ activities = {}
    /\ roles = {}
    /\ nextRoleId = 1
    /\ mediaItems = {}
    /\ nextMediaId = 1
    /\ mediaTypes = {}
    /\ appearances = {}
    /\ nextAppId = 1
    /\ staging = EmptyDir
    /\ stagingThumbs = {}
    /\ resFiles = EmptyDir
    /\ resDirs = {}
    /\ mentions = {}
    /\ mentionMembers = {}
    /\ mentionActivities = {}
    /\ mentionMediaItems = {}
    /\ req = NoRequests
    /\ bulk = Idle
    /\ lastRun = NoRun
    /\ result = [op |-> "init"]
    /\ ops = 0

CreateMember ==
    /\ ops < MaxOpsP /\ ops' = ops + 1
    /\ \E id \in {s_lee_bob_1, s_blank}, f \in {s_Bob, s_blank}, l \in {s_Lee, <<>>} :
          create_member(id, f, l)

QuickCreateMember ==
    /\ ops < MaxOpsP /\ ops' = ops + 1
    /\ \E f \in {s_Bob, s_bang, s_blank, <<>>}, l \in {s_Lee, s_bang, <<>>},
          id \in {None, s_lee_bob} :
          quick_create_member(f, l, id)

DeleteMember ==
    /\ ops < MaxOpsP /\ ops' = ops + 1
    /\ \E id \in {s_lee_bob, s_lee_bob_1} : delete_member(id)

NextP == CreateMember \/ QuickCreateMember \/ DeleteMember

SpecP == InitP /\ [][NextP]_vars

-----------------------------------------------------------------------------
(* Properties of quick_create_member *)

IsQuickCreate ==
    result'.op = "quick_create_member" /\ result'.id_lid = None

\* the id the specification derives: the slug, or the slug with the first
\* free counter
DerivedId(first_name, last_name) ==
    LET base == slugify(last_name \o s_dash \o first_name)
        numbered(k) == base \o s_dash \o Decimal(k)
    IN  IF base \notin MemberIds THEN base
        ELSE numbered(CHOOSE k \in 1..9 :
                 /\ numbered(k) \notin MemberIds
                 /\ \A j \in 1..(k - 1) : numbered(j) \in MemberIds)

\* the call stores one new Member under the derived id, unused before
QuickCreated ==
    \E m \in members' :
       /\ m.id_member = DerivedId(result'.first_name, result'.last_name)
       /\ m.id_member \notin MemberIds
       /\ members' = members \cup {m}
       /\ result'.ret = m.id_member

\* C14 as stated: every quick_create_member call without an id succeeds and
\* stores a Member under the derived id, different from every earlier id.
C14_QuickCreateAlwaysSucceeds ==
    [][ IsQuickCreate => QuickCreated ]_vars

\* the names create_member accepts and whose slug can serve as an id
NamesUsable ==
    /\ result'.first_name # <<>>
    /\ result'.last_name # <<>>
    /\ slugify(result'.last_name \o s_dash \o result'.first_name) # <<>>

\* C14 as amended: with a non-empty first name, a non-empty last name and a
\* non-empty slug the call succeeds and stores a Member under the derived
\* id, different from every earlier id.
C14_QuickCreateDerivedId ==
    [][ (IsQuickCreate /\ NamesUsable) => QuickCreated ]_vars

\* a call that had to take the second counter
C14_Witness ==
    /\ result.op = "quick_create_member"
    /\ result.id_lid = None
    /\ result.ret = s_lee_bob \o s_dash \o Decimal(2)
    /\ {s_lee_bob, s_lee_bob_1} \subseteq MemberIds

-----------------------------------------------------------------------------
(* The remaining update operations *)

\* member_service.py update_member: the statement sets all five columns, an
\* argument that was not supplied as NULL; the columns first name, last name
\* and gdpr_permission are NOT NULL (models.py lines 23-26)
update_member(id_member, first_name, last_name, gdpr_permission, notes) ==
    LET fields == (IF first_name # None THEN {"current_first_name"} ELSE {})
                  \cup (IF last_name # None THEN {"current_last_name"} ELSE {})
                  \cup (IF gdpr_permission # NoId THEN {"gdpr_permission"} ELSE {})
                  \cup (IF notes # None THEN {"notes"} ELSE {})
        rec(err, ret) == [op |-> "update_member", id |-> id_member,
                          fields |-> fields, err |-> err, ret |-> ret]
        upd(m) == [m EXCEPT !.current_first_name = Strip(first_name),
                            !.current_last_name = Strip(last_name),
                            !.gdpr_permission = gdpr_permission,
                            !.notes = notes]
    IN
    /\ IF id_member \notin MemberIds
       THEN members' = members /\ result' = rec("none", None)
       ELSE IF ~Truthy(first_name) \/ ~Truthy(last_name) \/ gdpr_permission = NoId
       THEN members' = members /\ result' = rec("IntegrityError", None)
       ELSE /\ members' = {IF m.id_member = id_member THEN upd(m) ELSE m :
                             m \in members}
            /\ result' = rec("none", id_member)
    /\ UNCHANGED <<activities, roles, nextRoleId, mediaItems, nextMediaId,
                   mediaTypes, appearances, nextAppId, fsVars, bulk, lastRun, req, mentionVars>>

\* role_service.py RoleService.update_role: fetch, assign, flush
RoleService_update_role(id_role, role_name) ==
    LET fields == IF role_name # None THEN {"role_name"} ELSE {}
    IN
    /\ IF id_role \in RoleIds
       THEN /\ roles' = {IF r.id_role = id_role /\ role_name # None
                         THEN [r EXCEPT !.role_name = role_name] ELSE r :
                           r \in roles}
            /\ result' = [op |-> "RoleService.update_role", id |-> id_role,
                          fields |-> fields, err |-> "none", ret |-> id_role]
       ELSE /\ roles' = roles
            /\ result' = [op |-> "RoleService.update_role", id |-> id_role,
                          fields |-> fields, err |-> "none", ret |-> NoId]
    /\ UNCHANGED <<members, activities, nextRoleId, mediaItems, nextMediaId,
                   mediaTypes, appearances, nextAppId, fsVars, bulk, lastRun, req, mentionVars>>

\* activity_service.py ActivityService.update_role: an UPDATE of the
\* supplied values, None when there are none
ActivityService_update_role(id_role, role_name) ==
    LET fields == IF role_name # None THEN {"role_name"} ELSE {}
    IN
    /\ IF fields # {} /\ id_role \in RoleIds
       THEN /\ roles' = {IF r.id_role = id_role
                         THEN [r EXCEPT !.role_name = Strip(role_name)] ELSE r :
                           r \in roles}
            /\ result' = [op |-> "ActivityService.update_role", id |-> id_role,
                          fields |-> fields, err |-> "none", ret |-> id_role]
       ELSE /\ roles' = roles
            /\ result' = [op |-> "ActivityService.update_role", id |-> id_role,
                          fields |-> fields, err |-> "none", ret |-> NoId]
    /\ UNCHANGED <<members, activities, nextRoleId, mediaItems, nextMediaId,
                   mediaTypes, appearances, nextAppId, fsVars, bulk, lastRun, req, mentionVars>>

-----------------------------------------------------------------------------
(* Inputs and specification of the update operations, on a loaded store *)

InitU == InitM

\* the arguments update_member is exercised with
MemberPatches ==
    { [first_name |-> None, last_name |-> None, gdpr |-> NoId, notes |-> None],
      [first_name |-> None, last_name |-> None, gdpr |-> NoId, notes |-> s_ctx],
      [first_name |-> s_Bo, last_name |-> None, gdpr |-> NoId, notes |-> None],
      [first_name |-> s_Bo, last_name |-> s_Lee, gdpr |-> 0, notes |-> None],
      [first_name |-> s_Bob, last_name |-> s_Lee, gdpr |-> 1, notes |-> s_ctx] }

\* the arguments update_activity is exercised with
ActivityPatches ==
    { [title |-> None, year |-> NoId, folder |-> None],
      [title |-> s_rep_dir, year |-> NoId, folder |-> None],
      [title |-> None, year |-> 1999, folder |-> None],
      [title |-> None, year |-> NoId, folder |-> <<>>] }

UpdateMemberU ==
    /\ ops < MaxOpsU /\ ops' = ops + 1
    /\ \E id \in MemberIdInputs, p \in MemberPatches :
          update_member(id, p.first_name, p.last_name, p.gdpr, p.notes)

UpdateActivityU ==
    /\ ops < MaxOpsU /\ ops' = ops + 1
    /\ \E id \in {s_gala_id, s_no_such_id}, p \in ActivityPatches :
          update_activity(id, p.title, p.year, p.folder)

UpdateRoleR ==
    /\ ops < MaxOpsU /\ ops' = ops + 1
    /\ \E id \in {1, nextRoleId}, n \in {None, s_Dir} :
          RoleService_update_role(id, n)

UpdateRoleA ==
    /\ ops < MaxOpsU /\ ops' = ops + 1
    /\ \E id \in {1, nextRoleId}, n \in {None, s_Dir} :
          ActivityService_update_role(id, n)

UpdateMediaItemU ==
    /\ ops < MaxOpsU /\ ops' = ops + 1
    /\ \E id \in {1, nextMediaId}, c \in {None, s_opening} :
          update_media_item(id, None, None, None, c)

UpdateMediaAppearanceU ==
    /\ ops < MaxOpsU /\ ops' = ops + 1
    /\ \E id \in AppIdInputs, ir \in {NoId, 1}, ctx \in {None, s_ctx} :
          update_media_appearance(id, ir, ctx)

NextU == UpdateMemberU \/ UpdateActivityU \/ UpdateRoleR \/ UpdateRoleA
         \/ UpdateMediaItemU \/ UpdateMediaAppearanceU

SpecU == InitU /\ [][NextU]_vars

-----------------------------------------------------------------------------
(* Properties of the update operations *)

UpdateOps == {"update_member", "update_activity", "RoleService.update_role",
              "ActivityService.update_role", "update_media_item",
              "update_media_appearance"}

IsUpdate == result'.op \in UpdateOps

\* the id the update was called with
UpdatedId ==
    IF result'.op = "update_media_item" THEN result'.id_media
    ELSE IF result'.op = "update_media_appearance" THEN result'.id_appearance
    ELSE result'.id

\* table T2 is table T but for the given fields of the row with the given key
Frame(T, T2, key, id, fields) ==
    /\ {r[key] : r \in T2} = {r[key] : r \in T}
    /\ Cardinality(T2) = Cardinality(T)
    /\ \A r \in T : \E r2 \in T2 :
          /\ r2[key] = r[key]
          /\ \A f \in DOMAIN r : (r[key] # id \/ f \notin fields) => r2[f] = r[f]

\* C15: an update changes only the supplied fields of the record it is
\* called on; every other field and every other record keeps its value.
C15_UpdateFrame ==
    [][ IsUpdate =>
          /\ IF result'.op = "update_member"
             THEN Frame(members, members', "id_member", UpdatedId, result'.fields)
             ELSE members' = members
          /\ IF result'.op = "update_activity"
             THEN Frame(activities, activities', "id_activity", UpdatedId,
                        result'.fields)
             ELSE activities' = activities
          /\ IF result'.op \in {"RoleService.update_role",
                                "ActivityService.update_role"}
             THEN Frame(roles, roles', "id_role", UpdatedId, result'.fields)
             ELSE roles' = roles
          /\ IF result'.op = "update_media_item"
             THEN Frame(mediaItems, mediaItems', "id_media", UpdatedId,
                        result'.fields)
             ELSE mediaItems' = mediaItems
          /\ IF result'.op = "update_media_appearance"
             THEN Frame(appearances, appearances', "id_appearance", UpdatedId,
                        result'.fields)
             ELSE appearances' = appearances ]_vars

\* The same frame for the updates other than update_member.
UpdateFrameButMember ==
    [][ (IsUpdate /\ result'.op # "update_member") =>
          /\ members' = members
          /\ Frame(activities, activities', "id_activity",
                   IF result'.op = "update_activity" THEN UpdatedId ELSE None,
                   IF result'.op = "update_activity" THEN result'.fields ELSE {})
          /\ Frame(roles, roles', "id_role",
                   IF result'.op \in {"RoleService.update_role",
                                      "ActivityService.update_role"}
                   THEN UpdatedId ELSE NoId, {"role_name"} \cap result'.fields)
          /\ Frame(mediaItems, mediaItems', "id_media",
                   IF result'.op = "update_media_item" THEN UpdatedId ELSE NoId,
                   {"caption"} \cap result'.fields)
          /\ Frame(appearances, appearances', "id_appearance",
                   IF result'.op = "update_media_appearance" THEN UpdatedId
                   ELSE NoId,
                   {"id_role", "appearance_context"} \cap result'.fields) ]_vars

\* a record with the id existed when the update was called
UpdatedExisted ==
    UpdatedId \in
       (IF result'.op = "update_member" THEN MemberIds
        ELSE IF result'.op = "update_activity" THEN ActivityIds
        ELSE IF result'.op = "update_media_item" THEN MediaIds
        ELSE IF result'.op = "update_media_appearance" THEN AppIds
        ELSE RoleIds)

\* the absent result of the operation
Absent ==
    IF result'.op \in {"update_member", "update_activity"} THEN None ELSE NoId

\* C16: an update returns the absent result exactly when no record with the
\* id exists; when the record exists it returns that record, also when no
\* field is supplied.
C16_AbsentIffMissing ==
    [][ IsUpdate =>
          IF UpdatedExisted
          THEN result'.ret = UpdatedId
          ELSE result'.ret = Absent ]_vars

\* What does hold: RoleService.update_role follows that convention.
AbsentIffMissingRoleService ==
    [][ result'.op = "RoleService.update_role" =>
          IF UpdatedExisted
          THEN result'.ret = UpdatedId
          ELSE result'.ret = Absent ]_vars

-----------------------------------------------------------------------------
(* The remaining delete operations *)

\* role_service.py RoleService.delete_role: session.delete on the loaded
\* Role.  The relationship Role.appearances (models.py line 132) has neither
\* a delete cascade nor passive_deletes, so the flush first sets id_role of
\* the MediaAppearance rows of that Role to NULL.
RoleService_delete_role(id_role) ==
    /\ IF id_role \in RoleIds
       THEN /\ roles' = {r \in roles : r.id_role # id_role}
            /\ appearances' = {IF p.id_role = id_role
                               THEN [p EXCEPT !.id_role = NoId] ELSE p :
                                 p \in appearances}
       ELSE UNCHANGED <<roles, appearances>>
    /\ result' = [op |-> "RoleService.delete_role", id |-> id_role,
                  ret |-> id_role \in RoleIds]
    /\ UNCHANGED <<members, activities, nextRoleId, mediaItems, nextMediaId,
                   mediaTypes, nextAppId, fsVars, bulk, lastRun, req, mentionVars>>

\* activity_service.py ActivityService.delete_role: a plain DELETE
ActivityService_delete_role(id_role) ==
    /\ roles' = {r \in roles : r.id_role # id_role}
    /\ result' = [op |-> "ActivityService.delete_role", id |-> id_role,
                  ret |-> id_role \in RoleIds]
    /\ UNCHANGED <<members, activities, nextRoleId, mediaItems, nextMediaId,
                   mediaTypes, appearances, nextAppId, fsVars, bulk, lastRun, req, mentionVars>>

\* media_service.py delete_media_item: a plain DELETE
delete_media_item(id_media) ==
    /\ mediaItems' = {m \in mediaItems : m.id_media # id_media}
    /\ result' = [op |-> "delete_media_item", id |-> id_media,
                  ret |-> id_media \in MediaIds]
    /\ UNCHANGED <<members, activities, roles, nextRoleId, nextMediaId,
                   mediaTypes, appearances, nextAppId, fsVars, bulk, lastRun, req, mentionVars>>

\* media_service.py delete_media_appearance: a plain DELETE
delete_media_appearance(id_appearance) ==
    /\ appearances' = {p \in appearances : p.id_appearance # id_appearance}
    /\ result' = [op |-> "delete_media_appearance", id |-> id_appearance,
                  ret |-> id_appearance \in AppIds]
    /\ UNCHANGED <<members, activities, roles, nextRoleId, mediaItems,
                   nextMediaId, mediaTypes, nextAppId, fsVars, bulk, lastRun, req, mentionVars>>

-----------------------------------------------------------------------------
(* Inputs and specification of the delete operations, on a loaded store *)

InitD == InitM

DeleteActivityD ==
    /\ \E id \in {s_gala_id, s_rep_id, s_no_such_id} : delete_activity(id)
    /\ UNCHANGED ops

DeleteMemberD ==
    /\ \E id \in MemberIdInputs : delete_member(id)
    /\ UNCHANGED ops

DeleteRoleR ==
    /\ \E id \in 1..nextRoleId : RoleService_delete_role(id)
    /\ UNCHANGED ops

DeleteRoleA ==
    /\ \E id \in 1..nextRoleId : ActivityService_delete_role(id)
    /\ UNCHANGED ops

DeleteMediaItem ==
    /\ \E id \in MediaIdInputs : delete_media_item(id)
    /\ UNCHANGED ops

DeleteMediaAppearance ==
    /\ \E id \in AppIdInputs : delete_media_appearance(id)
    /\ UNCHANGED ops

\* an appearance is given a Role of its Activity
AssignRoleD ==
    /\ \E id \in AppIds, ir \in RoleIds : update_media_appearance(id, ir, None)
    /\ UNCHANGED ops

NextD == DeleteActivityD \/ DeleteMemberD \/ DeleteRoleR \/ DeleteRoleA
         \/ DeleteMediaItem \/ DeleteMediaAppearance \/ AssignRoleD

SpecD == InitD /\ [][NextD]_vars

-----------------------------------------------------------------------------
(* Properties of the delete operations *)

DeleteOps == {"delete_activity", "delete_member", "RoleService.delete_role",
              "ActivityService.delete_role", "delete_media_item",
              "delete_media_appearance"}

IsDelete == result'.op \in DeleteOps

\* the named operations remove from table T, into T2, exactly the row with
\* the key result'.id and return whether there was one; the others leave
\* the table as it is
DeletesOnly(names, T, T2, key) ==
    IF result'.op \in names
    THEN /\ T2 = {r \in T : r[key] # result'.id}
         /\ result'.ret = (\E r \in T : r[key] = result'.id)
    ELSE T2 = T

\* C17: delete(id) returns true exactly when a record with the id existed;
\* afterwards there is none, and no other record of any entity has been
\* removed or changed.
C17_DeleteOnlyThat ==
    [][ IsDelete =>
          /\ DeletesOnly({"delete_activity"}, activities, activities', "id_activity")
          /\ DeletesOnly({"delete_member"}, members, members', "id_member")
          /\ DeletesOnly({"RoleService.delete_role", "ActivityService.delete_role"},
                         roles, roles', "id_role")
          /\ DeletesOnly({"delete_media_item"}, mediaItems, mediaItems', "id_media")
          /\ DeletesOnly({"delete_media_appearance"}, appearances, appearances',
                         "id_appearance") ]_vars

\* The same for the delete operations other than RoleService.delete_role.
DeleteOnlyThatButRoleService ==
    [][ (IsDelete /\ result'.op # "RoleService.delete_role") =>
          /\ DeletesOnly({"delete_activity"}, activities, activities', "id_activity")
          /\ DeletesOnly({"delete_member"}, members, members', "id_member")
          /\ DeletesOnly({"ActivityService.delete_role"}, roles, roles', "id_role")
          /\ DeletesOnly({"delete_media_item"}, mediaItems, mediaItems', "id_media")
          /\ DeletesOnly({"delete_media_appearance"}, appearances, appearances',
                         "id_appearance") ]_vars

-----------------------------------------------------------------------------
(* The Role create operations *)

\* role_service.py RoleService.create_role: the row is added as given
RoleService_create_role(id_activity, id_member, role_name) ==
    /\ roles' = create_role_rows(id_activity, id_member, role_name)
    /\ nextRoleId' = nextRoleId + 1
    /\ result' = [op |-> "RoleService.create_role", id_activity |-> id_activity,
                  id_member |-> id_member, err |-> "none", ret |-> nextRoleId]
    /\ UNCHANGED <<members, activities, mediaItems, nextMediaId, mediaTypes,
                   appearances, nextAppId, fsVars, bulk, lastRun, req, mentionVars>>

\* activity_service.py ActivityService.create_role as a function of the role
\* table rs and counter next: the error raised, if any, and both afterwards
ActivityService_create_role_outcome(rs, next, id_activity, id_member, role_name) ==
    IF id_activity \notin ActivityIds \/ id_member \notin MemberIds
    THEN [err |-> "ValueError", roles |-> rs, next |-> next]
    ELSE [err |-> "none",
          roles |-> rs \cup {[id_role |-> next, id_activity |-> id_activity,
                              id_member |-> id_member,
                              role_name |-> Strip(role_name)]},
          next |-> next + 1]

ActivityService_create_role(id_activity, id_member, role_name) ==
    LET o == ActivityService_create_role_outcome(roles, nextRoleId, id_activity,
                                                 id_member, role_name)
    IN
    /\ roles' = o.roles
    /\ nextRoleId' = o.next
    /\ result' = [op |-> "ActivityService.create_role",
                  id_activity |-> id_activity, id_member |-> id_member,
                  err |-> o.err,
                  ret |-> IF o.err = "none" THEN nextRoleId ELSE NoId]
    /\ UNCHANGED <<members, activities, mediaItems, nextMediaId, mediaTypes,
                   appearances, nextAppId, fsVars, bulk, lastRun, req, mentionVars>>

\* add_roles_to_activity: create_role on each element in turn; the loop ends
\* at the first element that raises, after the rows of the earlier ones
\* were flushed
RECURSIVE add_roles_outcome(_, _, _, _)
add_roles_outcome(rs, next, id_activity, roles_data) ==
    IF roles_data = <<>> THEN [err |-> "none", roles |-> rs, next |-> next]
    ELSE LET o == ActivityService_create_role_outcome(
                      rs, next, id_activity, Head(roles_data).id_member,
                      Head(roles_data).role_name)
         IN  IF o.err # "none" THEN o
             ELSE add_roles_outcome(o.roles, o.next, id_activity, Tail(roles_data))

add_roles_to_activity(id_activity, roles_data) ==
    LET o == add_roles_outcome(roles, nextRoleId, id_activity, roles_data)
    IN
    /\ roles' = o.roles
    /\ nextRoleId' = o.next
    /\ result' = [op |-> "add_roles_to_activity", id_activity |-> id_activity,
                  roles_data |-> roles_data, err |-> o.err,
                  ret |-> IF o.err = "none" THEN o.next - nextRoleId ELSE NoId]
    /\ UNCHANGED <<members, activities, mediaItems, nextMediaId, mediaTypes,
                   appearances, nextAppId, fsVars, bulk, lastRun, req, mentionVars>>

-----------------------------------------------------------------------------
(* Inputs and specification of the create operations *)

InitC ==
    /\ members = {BobLee}
    /\ activities = {Gala}
    /\ roles = {}
    /\ nextRoleId = 1
    /\ mediaItems = {}
    /\ nextMediaId = 1
    /\ mediaTypes = {}
    /\ appearances = {}
    /\ nextAppId = 1
    /\ staging = EmptyDir
    /\ stagingThumbs = {}
    /\ resFiles = EmptyDir
    /\ resDirs = {}
    /\ mentions = {}
    /\ mentionMembers = {}
    /\ mentionActivities = {}
    /\ mentionMediaItems = {}
    /\ req = NoRequests
    /\ bulk = Idle
    /\ lastRun = NoRun
    /\ result = [op |-> "init"]
    /\ ops = 0

RolesData ==
    UNION {[1..n -> [id_member : MemberIdInputs, role_name : {s_Ham}]] :
             n \in 0..MaxLinks}

MemberLists ==
    UNION {[1..n -> [id_member : MemberIdInputs, id_role : {NoId}]] :
             n \in 0..MaxLinks}

CreateActivityC ==
    /\ ops < MaxOpsC /\ ops' = ops + 1
    /\ \E id \in {s_rep_id, s_blank, <<>>}, t \in {s_rep, s_blank} :
          create_activity(id, t, 2024, None)

CreateMemberC ==
    /\ ops < MaxOpsC /\ ops' = ops + 1
    /\ \E id \in {s_lee_bo, s_blank}, f \in {s_Bo, s_blank}, l \in {s_Lee, <<>>} :
          create_member(id, f, l)

CreateMediaItemC ==
    /\ ops < MaxOpsC /\ ops' = ops + 1
    /\ \E a \in {s_gala_id, s_no_such_id, s_blank}, f \in {s_poster, s_blank},
          t \in {s_Foto, <<>>} :
          create_media_item(a, f, t, NoPath, None)

CreateRoleR ==
    /\ ops < MaxOpsC /\ ops' = ops + 1
    /\ \E a \in {s_gala_id, s_no_such_id}, m \in MemberIdInputs :
          RoleService_create_role(a, m, s_Ham)

CreateRoleA ==
    /\ ops < MaxOpsC /\ ops' = ops + 1
    /\ \E a \in {s_gala_id, s_no_such_id}, m \in MemberIdInputs :
          ActivityService_create_role(a, m, s_Ham)

AddRolesToActivity ==
    /\ ops < MaxOpsC /\ ops' = ops + 1
    /\ \E a \in {s_gala_id, s_no_such_id}, l \in RolesData :
          add_roles_to_activity(a, l)

CreateMediaAppearanceC ==
    /\ ops < MaxOpsC /\ ops' = ops + 1
    /\ \E im \in MediaIdInputs, mem \in MemberIdInputs, ir \in {NoId, 1} :
          create_media_appearance(im, mem, ir)

LinkMembersToMediaC ==
    /\ ops < MaxOpsC /\ ops' = ops + 1
    /\ \E im \in MediaIdInputs, l \in MemberLists : link_members_to_media(im, l)

NextC == CreateActivityC \/ CreateMemberC \/ CreateMediaItemC \/ CreateRoleR
         \/ CreateRoleA \/ AddRolesToActivity \/ CreateMediaAppearanceC
         \/ LinkMembersToMediaC

SpecC == InitC /\ [][NextC]_vars

-----------------------------------------------------------------------------
(* Properties of the create operations *)

Blank(s) == s = None \/ Strip(s) = <<>>

\* the call is a create with a blank required field
BlankCreate ==
    \/ /\ result'.op = "create_member"
       /\ Blank(result'.id_member) \/ Blank(result'.first_name)
          \/ Blank(result'.last_name)
    \/ /\ result'.op = "create_activity"
       /\ Blank(result'.id_activity) \/ Blank(result'.title)
    \/ /\ result'.op = "create_media_item"
       /\ Blank(result'.id_activity) \/ Blank(result'.filename)
          \/ Blank(result'.type_media)

\* no stored record has a required field that is empty after trimming
RequiredFieldsFilled ==
    /\ \A m \in members : ~Blank(m.id_member) /\ ~Blank(m.current_first_name)
                          /\ ~Blank(m.current_last_name)
    /\ \A a \in activities : ~Blank(a.id_activity) /\ ~Blank(a.title)
    /\ \A i \in mediaItems : ~Blank(i.id_activity) /\ ~Blank(i.filename)
                             /\ ~Blank(i.type_media)

\* C18: a create with a blank required field fails with a validation error
\* and persists nothing; no stored record has such a field empty after
\* trimming.
C18_BlankRejected ==
    [][ /\ BlankCreate =>
             /\ result'.err = "ValueError"
             /\ storeVars' = storeVars
        /\ RequiredFieldsFilled' ]_vars

\* What does hold: a create with an empty required field stores no record.
EmptyRejected ==
    [][ ( \/ /\ result'.op = "create_member"
             /\ <<>> \in {result'.id_member, result'.first_name, result'.last_name}
          \/ /\ result'.op = "create_activity"
             /\ <<>> \in {result'.id_activity, result'.title}
          \/ /\ result'.op = "create_media_item"
             /\ <<>> \in {result'.id_activity, result'.filename,
                          result'.type_media} )
        => /\ result'.err = "ValueError"
           /\ storeVars' = storeVars ]_vars

\* the error a call raised
Raised ==
    IF result'.op \in {"create_media_appearance", "link_members_to_media"}
    THEN result'.ret ELSE result'.err

\* C19: a service call that raises a validation error leaves the store as it
\* was before the call.
C19_RaiseLeavesStore ==
    [][ Raised = "ValueError" => storeVars' = storeVars ]_vars

\* C20: every Role references an existing Activity and an existing Member,
\* every MediaItem an existing Activity, every MediaAppearance an existing
\* MediaItem and an existing Member.
C20_ParentsExist ==
    /\ \A r \in roles : r.id_activity \in ActivityIds /\ r.id_member \in MemberIds
    /\ \A i \in mediaItems : i.id_activity \in ActivityIds
    /\ \A p \in appearances : p.id_media \in MediaIds /\ p.id_member \in MemberIds

-----------------------------------------------------------------------------
(* The program-text parser in a store whose Members can be deleted *)

ProgramTextsL ==
    UNION {[1..n -> {l_dir_bob_lee, l_ham_bob, l_pause}] : n \in 1..MaxLines}

InitL ==
    /\ InitB
    /\ members = {BobLee}

BulkStartL ==
    /\ ops < MaxOpsL /\ ops' = ops + 1
    /\ \E text \in ProgramTextsL : bulk_start(s_gala_id, text)

DeleteMemberL ==
    /\ ops < MaxOpsL /\ ops' = ops + 1
    /\ bulk.state # "running"
    /\ delete_member(s_lee_bob)

NextL == BulkStartL \/ BulkLine \/ BulkReturn \/ DeleteMemberL

SpecL == InitL /\ [][NextL]_vars

\* the line of this step ends in an error, skip or duplicate message
LineReported ==
    /\ IsLineStep
    /\ bulk'.log[bulk.i] \in {"error", "skipped", "exists"}

\* C21: a line that ends in an error, skip or duplicate message leaves the
\* store as it was: it adds no Role and no Member, also when the actor name
\* was resolved by creating a new Member.
C21_ReportedLineIsNoOp ==
    [][ LineReported => (roles' = roles /\ members' = members) ]_vars

\* the same, for the lines whose actor name matches a stored Member or whose
\* new Member has no Role left over from a deleted Member of the same id
ReportedLineIsNoOpButOrphan ==
    [][ (LineReported
           /\ \A r \in roles : r.id_member \in MemberIds)
        => (roles' = roles /\ members' = members) ]_vars

-----------------------------------------------------------------------------
(* content_db/services/media_mention_service.py *)

MentionIds == {m.id_mention : m \in mentions}

\* id_mention is an INTEGER PRIMARY KEY without AUTOINCREMENT: SQLite gives a
\* new row the largest stored id plus one
new_id_mention ==
    IF mentions = {} THEN 1
    ELSE 1 + CHOOSE k \in MentionIds : \A j \in MentionIds : j <= k

create_media_mention(source, title, media_type) ==
    /\ IF ~Truthy(source) \/ ~Truthy(title)
       THEN /\ result' = [op |-> "create_media_mention", source |-> source,
                          title |-> title, err |-> "ValueError", ret |-> NoId]
            /\ UNCHANGED mentions
       ELSE /\ mentions' = mentions \cup
                {[id_mention |-> new_id_mention, source |-> Strip(source),
                  title |-> Strip(title),
                  media_type |-> IF Truthy(media_type)
                                 THEN Lower(Strip(media_type)) ELSE None]}
            /\ result' = [op |-> "create_media_mention", source |-> source,
                          title |-> title, err |-> "none",
                          ret |-> new_id_mention]
    /\ UNCHANGED <<storeVars, fsVars, mentionMembers, mentionActivities,
                   mentionMediaItems, bulk, lastRun, req>>

\* delete_media_mention: a Core DELETE on media_mention alone; the foreign
\* keys of the association tables carry no ON DELETE rule
delete_media_mention(id_mention) ==
    /\ mentions' = {m \in mentions : m.id_mention # id_mention}
    /\ result' = [op |-> "delete_media_mention", id |-> id_mention,
                  ret |-> id_mention \in MentionIds]
    /\ UNCHANGED <<storeVars, fsVars, mentionMembers, mentionActivities,
                   mentionMediaItems, bulk, lastRun, req>>

\* the error of a link call: a missing parent, or the composite primary key
link_error(parents_found, key_taken) ==
    IF ~parents_found THEN "ValueError"
    ELSE IF key_taken THEN "IntegrityError"
    ELSE "none"

link_member_to_mention(id_mention, id_member, role_context) ==
    LET e == link_error(id_mention \in MentionIds /\ id_member \in MemberIds,
                        \E l \in mentionMembers : /\ l.mention_id = id_mention
                                                  /\ l.member_id = id_member)
    IN
    /\ mentionMembers' =
          IF e = "none"
          THEN mentionMembers \cup {[mention_id |-> id_mention,
                                     member_id |-> id_member,
                                     role_context |-> role_context]}
          ELSE mentionMembers
    /\ result' = [op |-> "link_member_to_mention", id |-> id_mention, err |-> e]
    /\ UNCHANGED <<storeVars, fsVars, mentions, mentionActivities,
                   mentionMediaItems, bulk, lastRun, req>>

link_activity_to_mention(id_mention, id_activity, relevance) ==
    LET e == link_error(id_mention \in MentionIds /\ id_activity \in ActivityIds,
                        \E l \in mentionActivities : /\ l.mention_id = id_mention
                                                     /\ l.activity_id = id_activity)
    IN
    /\ mentionActivities' =
          IF e = "none"
          THEN mentionActivities \cup {[mention_id |-> id_mention,
                                        activity_id |-> id_activity,
                                        relevance |-> relevance]}
          ELSE mentionActivities
    /\ result' = [op |-> "link_activity_to_mention", id |-> id_mention, err |-> e]
    /\ UNCHANGED <<storeVars, fsVars, mentions, mentionMembers,
                   mentionMediaItems, bulk, lastRun, req>>

link_media_item_to_mention(id_mention, id_media_item, page_number) ==
    LET e == link_error(id_mention \in MentionIds /\ id_media_item \in MediaIds,
                        \E l \in mentionMediaItems : /\ l.mention_id = id_mention
                                                     /\ l.media_item_id = id_media_item)
    IN
    /\ mentionMediaItems' =
          IF e = "none"
          THEN mentionMediaItems \cup {[mention_id |-> id_mention,
                                        media_item_id |-> id_media_item,
                                        page_number |-> page_number]}
          ELSE mentionMediaItems
    /\ result' = [op |-> "link_media_item_to_mention", id |-> id_mention, err |-> e]
    /\ UNCHANGED <<storeVars, fsVars, mentions, mentionMembers,
                   mentionActivities, bulk, lastRun, req>>

-----------------------------------------------------------------------------
(* Inputs and specification of the MediaMention services *)

s_NRC == <<"N","R","C">>
s_Review == <<"R","e","v","i","e","w">>

InitN == InitM

MentionIdInputs == 1..new_id_mention

CreateMediaMention ==
    /\ ops < MaxOpsN /\ ops' = ops + 1
    /\ \E src \in {s_NRC, <<>>}, t \in {s_Review}, mt \in {None, s_foto} :
          create_media_mention(src, t, mt)

DeleteMediaMention ==
    /\ ops < MaxOpsN /\ ops' = ops + 1
    /\ \E id \in MentionIdInputs : delete_media_mention(id)

LinkMemberToMention ==
    /\ ops < MaxOpsN /\ ops' = ops + 1
    /\ \E id \in MentionIdInputs, m \in {s_lee_bob, s_nobody}, c \in {None, s_Dir} :
          link_member_to_mention(id, m, c)

LinkActivityToMention ==
    /\ ops < MaxOpsN /\ ops' = ops + 1
    /\ \E id \in MentionIdInputs, a \in {s_gala_id, s_no_such_id} :
          link_activity_to_mention(id, a, None)

LinkMediaItemToMention ==
    /\ ops < MaxOpsN /\ ops' = ops + 1
    /\ \E id \in MentionIdInputs, i \in MediaIdInputs :
          link_media_item_to_mention(id, i, NoId)

NextN == CreateMediaMention \/ DeleteMediaMention \/ LinkMemberToMention
            \/ LinkActivityToMention \/ LinkMediaItemToMention

SpecN == InitN /\ [][NextN]_vars

\* the association rows of all three tables
MentionLinks == mentionMembers \cup mentionActivities \cup mentionMediaItems

\* C22: after delete_media_mention has removed a MediaMention no association
\* row referencing it remains, and in every reachable state each association
\* row references a stored MediaMention.
C22_MentionCascade ==
    [][ /\ \A l \in MentionLinks' : l.mention_id \in MentionIds'
        /\ (result'.op = "delete_media_mention" /\ result'.ret)
           => \A l \in MentionLinks' : l.mention_id # result'.id ]_vars

\* the link calls themselves never store a row for a missing MediaMention
LinkNeedsMention ==
    [][ \A l \in MentionLinks' \ MentionLinks : l.mention_id \in MentionIds ]_vars

-----------------------------------------------------------------------------
(* The member-facing reads: member_service.py list_members, reader.py,
   blueprints/member.py and blueprints/activity.py *)

\* a read: the store is left alone, the output is kept in result
read(op, err, shown) ==
    /\ result' = [op |-> op, err |-> err, members |-> shown]
    /\ UNCHANGED <<storeVars, fsVars, bulk, lastRun, req, mentionVars>>

\* list_members lines 57-63: the ids of the listed rows
list_members(gdpr_only) ==
    /\ result' = [op |-> "list_members", gdpr_only |-> gdpr_only, err |-> "none",
                  members |-> {m.id_member : m \in
                      {x \in members : gdpr_only => x.gdpr_permission = 1}}]
    /\ UNCHANGED <<storeVars, fsVars, bulk, lastRun, req, mentionVars>>

\* reader.py lid_info lines 131-152
lid_info(id_lid) ==
    read("lid_info", "none",
         {m.id_member : m \in {x \in members : /\ x.id_member = id_lid
                                               /\ x.gdpr_permission = 1}})

\* reader.py _load_timeline_members lines 196-207: the rows the new members
\* of the timeline are taken from
timeline ==
    read("timeline", "none",
         {m.id_member : m \in {x \in members : x.gdpr_permission = 1}})

\* reader.py medium lines 283-288: the MediaItems the query selects
medium_items(dir_medium, file_medium) ==
    {i \in mediaItems :
        /\ i.id_activity \in ActivityIds
        /\ ActivityById(i.id_activity).folder # None
        /\ ILikeContains(ActivityById(i.id_activity).folder, dir_medium)
        /\ i.filename = file_medium}

\* reader.py medium lines 302-311: the members reported for the item, one per
\* appearance whose Member row exists
medium_leden(item) ==
    {a.id_member : a \in {x \in appearances : /\ x.id_media = item.id_media
                                              /\ x.id_member \in MemberIds}}

medium(dir_medium, file_medium) ==
    LET found == medium_items(dir_medium, file_medium)
    IN  IF found = {} THEN read("medium", "none", {})
        ELSE IF Cardinality(found) > 1
        THEN read("medium", "MultipleResultsFound", {})
        ELSE read("medium", "none", medium_leden(CHOOSE i \in found : TRUE))

\* blueprints/member.py list line 21 and blueprints/activity.py detail line
\* 78: Member.query does not exist on the models' declarative base
member_list_page(show_all) == read("member.list", "AttributeError", {})

activity_detail_members(id_activity) ==
    IF id_activity \notin ActivityIds
    THEN read("activity.detail", "none", {})
    ELSE read("activity.detail", "AttributeError", {})

-----------------------------------------------------------------------------
(* Inputs and specification of the member-facing reads *)

InitG == InitM

UpdateMemberG ==
    /\ ops < MaxOpsG /\ ops' = ops + 1
    /\ \E g \in {0, 1}, f \in {s_Bob, s_Bo} :
          update_member(s_lee_bob, f, s_Lee, g, None)

ListMembers ==
    /\ ops < MaxOpsG /\ ops' = ops + 1
    /\ \E g \in BOOLEAN : list_members(g)

LidInfo ==
    /\ ops < MaxOpsG /\ ops' = ops + 1
    /\ \E id \in MemberIdInputs : lid_info(id)

Timeline ==
    /\ ops < MaxOpsG /\ ops' = ops + 1
    /\ timeline

Medium ==
    /\ ops < MaxOpsG /\ ops' = ops + 1
    /\ \E d \in {s_gala_dir, s_rep_dir}, f \in {s_scan1, s_scan2} : medium(d, f)

MemberListPage ==
    /\ ops < MaxOpsG /\ ops' = ops + 1
    /\ \E a \in BOOLEAN : member_list_page(a)

ActivityDetailPage ==
    /\ ops < MaxOpsG /\ ops' = ops + 1
    /\ \E a \in {s_gala_id, s_no_such_id} : activity_detail_members(a)

NextG == UpdateMemberG \/ ListMembers \/ LidInfo \/ Timeline \/ Medium
            \/ MemberListPage \/ ActivityDetailPage

SpecG == InitG /\ [][NextG]_vars

ReadOps == {"list_members", "lid_info", "timeline", "medium", "member.list",
            "activity.detail"}

\* the Members whose GDPR-visibility flag is off
Hidden == {m.id_member : m \in {x \in members : x.gdpr_permission # 1}}

\* C23: a Member whose GDPR flag is off is in the output of no member-facing
\* listing or read: member list, member info, timeline, the member selection
\* of the activity page, the members reported for a media item.
C23_HiddenNeverShown ==
    result.op \in ReadOps => result.members \cap Hidden = {}

\* the same for the reads that filter on the flag
HiddenNeverShownWhereFiltered ==
    (result.op \in {"lid_info", "timeline"}
       \/ (result.op = "list_members" /\ result.gdpr_only))
    => result.members \cap Hidden = {}

-----------------------------------------------------------------------------
(* app.py: bulk_assign_appearances and finalize_media_assignment, the
   requests that finalize a batch of MediaItems *)

\* media_service.py lines 164-172: the keyword arguments
\* create_media_appearance accepts
create_media_appearance_params ==
    {"id_media", "id_member", "id_role", "appearance_context", "display_order",
     "notes"}

\* app.py lines 193-200: the keyword arguments the handler passes
bulk_assign_kwargs ==
    {"id_media", "id_member", "id_role", "id_activity", "appearance_context"}

\* the error of one create_media_appearance call of the handler
bulk_assign_create_error(id_media, id_member) ==
    IF ~(bulk_assign_kwargs \subseteq create_media_appearance_params)
    THEN "TypeError"
    ELSE create_media_appearance_outcome(id_media, id_member, NoId)

\* lines 190-191: the (media item, member) pairs in the order of the loops
RECURSIVE assign_pairs(_, _)
assign_pairs(media_ids, member_ids) ==
    IF media_ids = <<>> THEN <<>>
    ELSE [i \in 1..Len(member_ids) |-> <<Head(media_ids), member_ids[i]>>]
         \o assign_pairs(Tail(media_ids), member_ids)

\* lines 185-189: the request starts and opens its transaction
bulk_assign_begin(r, id_activity, media_ids, member_ids) ==
    /\ req[r].pc \in {"idle", "done", "raised"}
    /\ req' = [req EXCEPT ![r] =
                 [pc |-> "assign", op |-> "bulk_assign_appearances",
                  id_activity |-> id_activity, media_ids |-> media_ids,
                  pairs |-> assign_pairs(media_ids, member_ids),
                  pairs0 |-> assign_pairs(media_ids, member_ids),
                  rest |-> media_ids, moved |-> {}, flashed |-> <<>>,
                  err |-> "none",
                  items0 |-> mediaItems, activities0 |-> activities,
                  staging0 |-> staging, resFiles0 |-> resFiles]]
    /\ result' = [op |-> "bulk_assign_appearances", ret |-> "pending"]
    /\ UNCHANGED <<storeVars, fsVars, mentionVars, bulk, lastRun>>

\* lines 190-200: one pass of the inner loop; an exception leaves the with
\* block, which rolls the transaction back, and ends the request
bulk_assign_create(r) ==
    LET p == Head(req[r].pairs)
        e == bulk_assign_create_error(p[1], p[2])
    IN
    /\ req[r].pc = "assign"
    /\ req[r].pairs # <<>>
    /\ req' = [req EXCEPT ![r].pc = "raised", ![r].err = e]
    /\ result' = [op |-> "bulk_assign_appearances", ret |-> e]
    /\ UNCHANGED <<storeVars, fsVars, mentionVars, bulk, lastRun>>

\* line 203: all pairs are done, the second loop starts
finalize_before_assign(r) ==
    /\ req[r].pc = "assign"
    /\ req' = [req EXCEPT ![r].pc = "finalize"]
    /\ UNCHANGED <<storeVars, fsVars, mentionVars, bulk, lastRun, result>>

bulk_assign_assigned(r) ==
    /\ req[r].pc = "assign"
    /\ req[r].pairs = <<>>
    /\ req' = [req EXCEPT ![r].pc = "finalize"]
    /\ UNCHANGED <<storeVars, fsVars, mentionVars, bulk, lastRun, result>>

\* lines 203-212: one pass of the second loop
bulk_assign_finalize(r) ==
    LET id == Head(req[r].rest)
    IN
    /\ req[r].pc = "finalize"
    /\ req[r].rest # <<>>
    /\ IF id \in MediaIds
       THEN /\ move_and_rename_media(id, FALSE)
            /\ req' = [req EXCEPT
                         ![r].rest = Tail(@),
                         ![r].moved = IF result'.ret THEN @ \cup {id} ELSE @,
                         ![r].flashed = IF result'.ret THEN @ ELSE Append(@, id)]
       ELSE /\ req' = [req EXCEPT ![r].rest = Tail(@)]
            /\ UNCHANGED <<storeVars, fsVars, mentionVars, bulk, lastRun, result>>

\* lines 214-217: commit, flash the summary, redirect
bulk_assign_commit(r) ==
    /\ req[r].pc = "finalize"
    /\ req[r].rest = <<>>
    /\ req' = [req EXCEPT ![r].pc = "done"]
    /\ result' = [op |-> "bulk_assign_appearances", ret |-> "none"]
    /\ UNCHANGED <<storeVars, fsVars, mentionVars, bulk, lastRun>>

\* list_media_for_activity (media_service.py lines 98-104) orders by
\* display_order, which no operation sets, and then by filename
RECURSIVE SeqOfIds(_)
SeqOfIds(ids) ==
    IF ids = {} THEN <<>>
    ELSE LET k == CHOOSE x \in ids : \A y \in ids : x <= y
         IN  <<k>> \o SeqOfIds(ids \ {k})

\* app.py finalize_media_assignment lines 241-261: get_activity (line 242)
\* has already begun the session's transaction, so db.session.begin() at
\* line 251 raises InvalidRequestError before the first item is looked at
finalize_media_assignment(r, id_activity) ==
    /\ req[r].pc \in {"idle", "done", "raised"}
    /\ IF id_activity \notin ActivityIds
       THEN /\ req' = [req EXCEPT ![r] = [pc |-> "idle"]]
            /\ result' = [op |-> "finalize_media_assignment", ret |-> "not found"]
       ELSE /\ req' = [req EXCEPT ![r] =
                 [pc |-> "raised", op |-> "finalize_media_assignment",
                  id_activity |-> id_activity,
                  media_ids |-> SeqOfIds({m.id_media : m \in
                        {x \in mediaItems : x.id_activity = id_activity}}),
                  pairs |-> <<>>, pairs0 |-> <<>>, rest |-> <<>>, moved |-> {}, flashed |-> <<>>,
                  err |-> "InvalidRequestError",
                  items0 |-> mediaItems, activities0 |-> activities,
                  staging0 |-> staging, resFiles0 |-> resFiles]]
            /\ result' = [op |-> "finalize_media_assignment",
                          ret |-> "InvalidRequestError"]
    /\ UNCHANGED <<storeVars, fsVars, mentionVars, bulk, lastRun>>

-----------------------------------------------------------------------------
(* Inputs and specification of the batch requests *)

InitH ==
    /\ members = {BobLee}
    /\ activities = {Gala, Rehearsal(None)}
    /\ roles = {}
    /\ nextRoleId = 1
    /\ mediaItems = {}
    /\ nextMediaId = 1
    /\ mediaTypes = {}
    /\ appearances = {}
    /\ nextAppId = 1
    /\ staging = EmptyDir
    /\ stagingThumbs = {s_img001}
    /\ resFiles = EmptyDir
    /\ resDirs = {}
    /\ mentions = {}
    /\ mentionMembers = {}
    /\ mentionActivities = {}
    /\ mentionMediaItems = {}
    /\ req = NoRequests
    /\ bulk = Idle
    /\ lastRun = NoRun
    /\ result = [op |-> "init"]
    /\ ops = 0

BatchLists == UNION {[1..n -> 1..nextMediaId] : n \in 1..MaxBatch}

UploadH ==
    /\ ops < MaxOpsH /\ ops' = ops + 1
    /\ \E raw \in UploadNames, a \in {s_gala_id, s_rep_id} : upload(raw, a)

BulkAssignBegin ==
    /\ ops < MaxOpsH /\ ops' = ops + 1
    /\ \E ids \in BatchLists, mem \in {<<>>, <<s_lee_bob>>, <<s_nobody>>} :
          bulk_assign_begin(1, s_gala_id, ids, mem)

BulkAssignCreate == bulk_assign_create(1) /\ UNCHANGED ops

BulkAssignAssigned == bulk_assign_assigned(1) /\ UNCHANGED ops

BulkAssignFinalize == bulk_assign_finalize(1) /\ UNCHANGED ops

BulkAssignCommit == bulk_assign_commit(1) /\ UNCHANGED ops

FinalizeMediaAssignment ==
    /\ ops < MaxOpsH /\ ops' = ops + 1
    /\ \E a \in {s_gala_id, s_no_such_id} : finalize_media_assignment(1, a)

NextH == UploadH \/ BulkAssignBegin \/ BulkAssignCreate \/ BulkAssignAssigned
            \/ BulkAssignFinalize \/ BulkAssignCommit \/ FinalizeMediaAssignment

SpecH == InitH /\ [][NextH]_vars

-----------------------------------------------------------------------------
(* Properties of the batch requests *)

Ended(r) == req[r].pc \in {"done", "raised"}

\* the media items of the batch of request r, as they were when it started
BatchItems0(r) ==
    {m \in req[r].items0 : m.id_media \in Range(req[r].media_ids)}

\* the item's own preconditions held when the request started
Eligible0(r, m) ==
    /\ Finalizable(m)
    /\ m.filename \in DOMAIN req[r].staging0
    /\ SpecDest(m) \notin DOMAIN req[r].resFiles0

\* the item is finalized: its file is at the destination and its record says so
MovedNow(m) ==
    /\ SpecDest(m) \in DOMAIN resFiles
    /\ \E x \in mediaItems : /\ x.id_media = m.id_media
                             /\ x.storage_path = SpecDest(m)

\* C24: in a batch finalize an item that fails is reported and neither
\* prevents nor undoes the move of another item: every item of the batch whose
\* own preconditions hold ends up moved, whatever happens to the others and
\* whatever their order.
C24_BatchIndependent ==
    \A r \in Requests :
       Ended(r) =>
          \A m \in BatchItems0(r) :
             /\ Eligible0(r, m) => MovedNow(m)
             /\ m.id_media \in req[r].moved \cup Range(req[r].flashed)

\* the step is one pass of the finalize loop of request 1
IsFinalizePass ==
    /\ req[1].pc = "finalize"
    /\ req[1].rest # <<>>
    /\ req'[1].rest = Tail(req[1].rest)

\* what the loop itself keeps: an item whose preconditions hold at its turn
\* is moved, an item that fails is flashed, and no pass touches the record or
\* the moved file of another item
FinalizePassIndependent ==
    [][ IsFinalizePass /\ Head(req[1].rest) \in MediaIds
        => LET m == MediaById(Head(req[1].rest))
           IN  /\ (Finalizable(m) /\ m.filename \in DOMAIN staging
                     /\ SpecDest(m) \notin DOMAIN resFiles)
                  => /\ m.id_media \in req'[1].moved
                     /\ SpecDest(m) \in DOMAIN resFiles'
                     /\ \E x \in mediaItems' :
                           /\ x.id_media = m.id_media
                           /\ x.storage_path = SpecDest(m)
               /\ m.id_media \in req'[1].moved \cup Range(req'[1].flashed)
               /\ \A x \in mediaItems : x.id_media # m.id_media => x \in mediaItems'
               /\ \A f \in DOMAIN resFiles :
                     f \in DOMAIN resFiles' /\ resFiles'[f] = resFiles[f] ]_vars

\* the step takes a file out of staging
FileMoved == \E f \in DOMAIN staging : f \notin DOMAIN staging'

\* every (media item, member) pair of the request has its appearance
AllAppearancesCreated(r) ==
    \A i \in DOMAIN req[r].pairs0 :
       \E a \in appearances : /\ a.id_media = req[r].pairs0[i][1]
                              /\ a.id_member = req[r].pairs0[i][2]

-----------------------------------------------------------------------------
(* content_db/services/activity_service.py: list_activities *)

\* the characters in the order of their code points, the order of SQLite's
\* default BINARY collation
CodeOrder ==
    <<" ", "!", "-", ".">> \o DigitChars \o UpperChars \o <<"_">> \o LowerChars
    \o <<"~">>

Code(c) == CHOOSE i \in DOMAIN CodeOrder : CodeOrder[i] = c

\* a < b as the store compares two texts
RECURSIVE TextLess(_, _)
TextLess(a, b) ==
    IF b = <<>> THEN FALSE
    ELSE IF a = <<>> THEN TRUE
    ELSE IF Head(a) # Head(b) THEN Code(Head(a)) < Code(Head(b))
    ELSE TextLess(Tail(a), Tail(b))

\* blueprints/core.py line 37: order_by(Activity.year.desc()) alone
RowBefore_year_only(a, b) == a.year > b.year

\* line 78: order_by(Activity.year.desc(), Activity.title); a NULL year, the
\* value NoId, is the smallest
RowBefore(a, b) ==
    \/ a.year > b.year
    \/ a.year = b.year /\ TextLess(a.title, b.title)

\* the rows in the order of the ORDER BY: a row goes behind the rows that are
\* not after it
RECURSIVE InsertRow(_, _)
InsertRow(sorted, row) ==
    IF sorted = <<>> THEN <<row>>
    ELSE IF RowBefore(row, Head(sorted)) THEN <<row>> \o sorted
    ELSE <<Head(sorted)>> \o InsertRow(Tail(sorted), row)

RECURSIVE SortRows(_)
SortRows(rows) ==
    IF rows = <<>> THEN <<>>
    ELSE InsertRow(SortRows(SubSeq(rows, 1, Len(rows) - 1)), rows[Len(rows)])

\* list_activities lines 73-81 on the table in scan order; year NoId is no
\* filter; limit and offset are the defaults 50 and 0
list_activities_rows(scan, year) ==
    LET kept == SelectSeq(scan, LAMBDA a : year # NoId => a.year = year)
        rows == SortRows(kept)
    IN  SubSeq(rows, 1, IF Len(rows) < 50 THEN Len(rows) ELSE 50)

list_activities(scan, year) ==
    /\ result' = [op |-> "list_activities", year |-> year, scan |-> scan,
                  ret |-> list_activities_rows(scan, year)]
    /\ UNCHANGED <<storeVars, fsVars, mentionVars, bulk, lastRun, req>>

-----------------------------------------------------------------------------
(* Inputs and specification of the Activity listing *)

s_gala_lc == <<"g","a","l","a">>

\* the orders in which a scan of the table can meet its rows
ScanOrders(T) ==
    {f \in [1..Cardinality(T) -> T] :
        \A i, j \in 1..Cardinality(T) : i # j => f[i] # f[j]}

InitY == InitA

CreateActivityY ==
    /\ ops < MaxOpsY /\ ops' = ops + 1
    /\ \E id \in {s_gala_id, s_rep_id, s_no_such_id},
          t \in {s_gala, s_rep, s_gala_lc}, y \in {NoId, 1999, 2024} :
          create_activity(id, t, y, None)

ListActivities ==
    /\ ops < MaxOpsY /\ ops' = ops + 1
    /\ \E scan \in ScanOrders(activities), y \in {NoId, 1999, 2024} :
          list_activities(scan, y)

NextY == CreateActivityY \/ ListActivities

SpecY == InitY /\ [][NextY]_vars

\* C25: list_activities with a year filter returns only Activities of that
\* year, and with or without a filter the returned Activities are ordered by
\* year descending and then title ascending, whatever the order in which they
\* were inserted.
C25_ListOrdered ==
    result.op = "list_activities" =>
       LET r == result.ret
       IN  /\ \A i \in DOMAIN r : r[i] \in activities
           /\ result.year # NoId => \A i \in DOMAIN r : r[i].year = result.year
           /\ {r[i] : i \in DOMAIN r}
                 = {a \in activities : result.year # NoId => a.year = result.year}
           /\ \A i, j \in DOMAIN r :
                 i < j => \/ r[i].year > r[j].year
                          \/ /\ r[i].year = r[j].year
                             /\ ~TextLess(r[j].title, r[i].title)

\* a filtered listing of two Activities of the year that were met in the
\* other order, with an Activity of another year left out
C25_Witness ==
    /\ result.op = "list_activities"
    /\ result.year = 2024
    /\ Len(result.ret) = 2
    /\ Len(result.scan) = 3
    /\ \E i, j \in DOMAIN result.scan :
          i < j /\ result.scan[i] = result.ret[2] /\ result.scan[j] = result.ret[1]
    /\ result.ret[1].title # result.ret[2].title

-----------------------------------------------------------------------------
(* The media-type lookup under create_media_item and update_media_item *)

s_VIDEO == <<"V","I","D","E","O"," ">>

\* type codes the calls are made with: new ones, respellings of one already
\* used, a blank one and an empty one
TypeInputs == {s_Foto, s_foto, s_VIDEO, s_blank, <<>>}

InitT == InitF

CreateMediaItemT ==
    /\ ops < MaxOpsT /\ ops' = ops + 1
    /\ \E a \in {s_gala_id, s_poster}, t \in TypeInputs :
          create_media_item(a, s_poster, t, NoPath, None)

UpdateMediaItemT ==
    /\ ops < MaxOpsT /\ ops' = ops + 1
    /\ \E id \in 1..MaxItems, t \in TypeInputs \cup {None},
          c \in {None, s_opening} :
          update_media_item(id, None, t, None, c)

NextT == CreateMediaItemT \/ UpdateMediaItemT

SpecT == InitT /\ [][NextT]_vars

\* C26: after every create_media_item and update_media_item call the type
\* code of every MediaItem is a code of the media-type lookup, the lookup
\* keeps the codes it had, and the call adds at most the one code it was
\* made with, and only when the lookup did not have it
C26_TypeRegistered ==
    [][ /\ \A m \in mediaItems' : m.type_media \in mediaTypes'
        /\ mediaTypes \subseteq mediaTypes'
        /\ Cardinality(mediaTypes' \ mediaTypes) <= 1
        /\ \A t \in mediaTypes' \ mediaTypes : t = Lower(Strip(t)) ]_vars

\* an update gave a second MediaItem a type code the lookup already had,
\* spelled differently, and the lookup has one entry for it
C26_Witness ==
    /\ result.op = "update_media_item"
    /\ result.ret # NoId
    /\ "type_media" \in result.fields
    /\ \E m1, m2 \in mediaItems :
          /\ m1.id_media # m2.id_media
          /\ m1.type_media = s_foto /\ m2.type_media = s_foto
    /\ mediaTypes = {s_foto}

-----------------------------------------------------------------------------
(* utils/file_utils.py: move_and_rename_media statement by statement, as one
   request r runs it while other requests run theirs.  The request keeps the
   MediaItem its session loaded (item) and the values it computed; the
   record it flushed (pending) reaches the media_item table when the caller
   commits. *)

move_call(r) == [op |-> "move_and_rename_media.step",
                 id_media |-> req[r].item.id_media,
                 overwrite |-> req[r].overwrite]

\* lines 20-47: the guards, the target path and the target directory
move_check(r, id_media, overwrite) ==
    LET m == MediaById(id_media)
        call == [op |-> "move_and_rename_media.step", id_media |-> id_media,
                 overwrite |-> overwrite]
    IN
    /\ req[r].pc = "idle"
    /\ id_media \in MediaIds
    /\ IF ~Truthy(m.filename)
       THEN /\ result' = call @@ [state |-> "returned", ret |-> FALSE, at |-> "no filename"]
            /\ UNCHANGED <<resDirs, req>>
       ELSE IF ~HasActivity(m) \/ ~Truthy(ActivityById(m.id_activity).folder)
       THEN /\ result' = call @@ [state |-> "returned", ret |-> FALSE, at |-> "no folder"]
            /\ UNCHANGED <<resDirs, req>>
       ELSE
         LET folder == ActivityById(m.id_activity).folder
             tdir   == target_dir(m, folder)
             tpath  == target_path(m, folder)
         IN
         /\ resDirs' = resDirs \cup {<<folder>>, tdir}
         /\ IF m.filename \notin DOMAIN staging
            THEN /\ result' = call @@ [state |-> "returned", ret |-> FALSE, at |-> "source missing"]
                 /\ UNCHANGED req
            ELSE IF target_taken(tpath, overwrite)
            THEN /\ result' = call @@ [state |-> "returned", ret |-> FALSE, at |-> "already exists"]
                 /\ UNCHANGED req
            ELSE /\ result' = call @@ [state |-> "running", at |-> "checked"]
                 /\ req' = [req EXCEPT
                              ![r] = [pc |-> "checked", op |-> "move",
                                      item |-> m, overwrite |-> overwrite,
                                      tdir |-> tdir, tpath |-> tpath,
                                      pending |-> m]]
    /\ UNCHANGED <<storeVars, staging, stagingThumbs, resFiles, mentionVars,
                   bulk, lastRun>>

\* line 49: source_path.rename(target_path); rename replaces a file that is
\* at the target and raises FileNotFoundError when the source is gone
move_main_file(r) ==
    LET src == req[r].item.filename
    IN
    /\ req[r].pc = "checked"
    /\ IF src \in DOMAIN staging
       THEN /\ staging' = Remove(staging, src)
            /\ resFiles' = Put(resFiles, req[r].tpath, staging[src])
            /\ req' = [req EXCEPT ![r].pc = "renamed"]
            /\ result' = move_call(r) @@ [state |-> "running", at |-> "renamed"]
       ELSE /\ req' = [req EXCEPT ![r] = [pc |-> "idle"]]
            /\ result' = move_call(r) @@ [state |-> "raised", at |-> "checked"]
            /\ UNCHANGED <<staging, resFiles>>
    /\ UNCHANGED <<storeVars, stagingThumbs, resDirs, mentionVars, bulk, lastRun>>

\* lines 52-57: the thumbnail, when there is one
move_thumbnail(r) ==
    LET src      == req[r].item.filename
        thumbDir == req[r].tdir \o <<s_thumbnails>>
    IN
    /\ req[r].pc = "renamed"
    /\ IF src \in stagingThumbs
       THEN /\ resDirs' = resDirs \cup {thumbDir}
            /\ stagingThumbs' = stagingThumbs \ {src}
            /\ resFiles' = Put(resFiles,
                               thumbDir \o <<new_filename(req[r].item)>>, 0)
       ELSE UNCHANGED <<resDirs, stagingThumbs, resFiles>>
    /\ req' = [req EXCEPT ![r].pc = "thumbed"]
    /\ result' = move_call(r) @@ [state |-> "running", at |-> "thumbed"]
    /\ UNCHANGED <<storeVars, staging, mentionVars, bulk, lastRun>>

\* the record is written while the file is still in staging
move_update_db_unmoved(r) ==
    /\ req[r].pc = "checked"
    /\ req' = [req EXCEPT
                 ![r].pc = "flushed",
                 ![r].pending = [req[r].item EXCEPT
                                   !.filename = new_filename(req[r].item),
                                   !.storage_path = req[r].tpath]]
    /\ result' = move_call(r) @@ [state |-> "running", at |-> "flushed"]
    /\ UNCHANGED <<storeVars, fsVars, mentionVars, bulk, lastRun>>

\* lines 60-63: filename and storage_path are set and flushed
move_update_db(r) ==
    /\ req[r].pc = "thumbed"
    /\ req' = [req EXCEPT
                 ![r].pc = "flushed",
                 ![r].pending = [req[r].item EXCEPT
                                   !.filename = new_filename(req[r].item),
                                   !.storage_path = req[r].tpath]]
    /\ result' = move_call(r) @@ [state |-> "running", at |-> "flushed"]
    /\ UNCHANGED <<storeVars, fsVars, mentionVars, bulk, lastRun>>

\* lines 65-66: the call returns True and its caller commits
move_return(r) ==
    /\ req[r].pc = "flushed"
    /\ mediaItems' = {IF m.id_media = req[r].item.id_media
                      THEN req[r].pending ELSE m : m \in mediaItems}
    /\ req' = [req EXCEPT ![r] = [pc |-> "idle"]]
    /\ result' = move_call(r) @@ [state |-> "returned", ret |-> TRUE, at |-> "moved"]
    /\ UNCHANGED <<members, activities, roles, nextRoleId, nextMediaId,
                   mediaTypes, appearances, nextAppId, fsVars, mentionVars,
                   bulk, lastRun>>

\* an exception in one of lines 49-63, or the process stopping there: the
\* session is rolled back, what was done to the files stays done
move_raise(r) ==
    /\ req[r].pc \in {"checked", "renamed", "thumbed", "flushed"}
    /\ req' = [req EXCEPT ![r] = [pc |-> "idle"]]
    /\ result' = move_call(r) @@ [state |-> "raised", at |-> req[r].pc]
    /\ UNCHANGED <<storeVars, fsVars, mentionVars, bulk, lastRun>>

InitS == InitF

UploadS ==
    /\ ops < MaxOpsS /\ ops' = ops + 1
    /\ \E raw \in UploadNames, a \in ActivityIds : upload(raw, a)

MoveCheck ==
    /\ ops < MaxOpsS /\ ops' = ops + 1
    /\ \E r \in Requests, id \in MediaIds, ow \in BOOLEAN : move_check(r, id, ow)

MoveMainFile == \E r \in Requests : move_main_file(r) /\ UNCHANGED ops

MoveThumbnail == \E r \in Requests : move_thumbnail(r) /\ UNCHANGED ops

MoveUpdateDb == \E r \in Requests : move_update_db(r) /\ UNCHANGED ops

MoveReturn == \E r \in Requests : move_return(r) /\ UNCHANGED ops

MoveRaise == \E r \in Requests : move_raise(r) /\ UNCHANGED ops

NextS == UploadS \/ MoveCheck \/ MoveMainFile \/ MoveThumbnail \/ MoveUpdateDb
         \/ MoveReturn \/ MoveRaise

SpecS == InitS /\ [][NextS]_vars

\* the MediaItem records there are: the committed ones and the ones a
\* running finalize has flushed
Records ==
    mediaItems \cup {req[r].pending : r \in {q \in Requests : req[q].pc = "flushed"}}

\* the stored path names a permanent location
IsFinalized(m) == m.storage_path # NoPath /\ m.storage_path[1] # s_uploads

\* the file an upload stored for the item is in staging
StagedFileOf(m) == \E n \in DOMAIN staging : staging[n] = m.id_media

-----------------------------------------------------------------------------
(* Uploads and finalize calls only: the files the MediaItems refer to *)

NextO == Upload \/ Finalize

SpecO == InitF /\ [][NextO]_vars

\* the content of the file a stored path refers to, in the given staging
\* area and resources tree; 0 when there is no file
FileAt(path, stg, res) ==
    IF path = NoPath THEN 0
    ELSE IF path[1] = s_uploads
    THEN (IF Len(path) = 2 /\ path[2] \in DOMAIN stg THEN stg[path[2]] ELSE 0)
    ELSE (IF path \in DOMAIN res THEN res[path] ELSE 0)

\* no two MediaItems have the same finalized storage path
UniqueFinalPaths(items) ==
    \A m1, m2 \in items :
       (m1.id_media # m2.id_media /\ IsFinalized(m1) /\ IsFinalized(m2))
          => m1.storage_path # m2.storage_path

\* the successful finalize left the file of every other item as it was
OthersKeptFile ==
    \A m \in mediaItems :
       (m.id_media # result'.id_media
          /\ FileAt(m.storage_path, staging, resFiles) # 0)
       => FileAt(m.storage_path, staging', resFiles')
             = FileAt(m.storage_path, staging, resFiles)

FinalizedKeptWithoutOverwrite ==
    [][ (IsMove => ~result'.overwrite)
        => /\ UniqueFinalPaths(mediaItems) => UniqueFinalPaths(mediaItems')
           /\ \A m \in mediaItems :
                 (IsFinalized(m) /\ m.storage_path \in DOMAIN resFiles)
                 => /\ m.storage_path \in DOMAIN resFiles'
                    /\ resFiles'[m.storage_path] = resFiles[m.storage_path] ]_vars

-----------------------------------------------------------------------------
(* Creation requests that run concurrently.  Each request r has its own
   session; it reads what is committed when its query runs, and its insert
   is committed by its caller right after the flush, so flush and commit are
   one step here. *)

CanBegin(r) == req[r].pc \in {"idle", "done"}

\* member_service.py lines 171-177: the id to try first
quick_create_member_begin(r, first_name, last_name) ==
    /\ CanBegin(r)
    /\ req' = [req EXCEPT
                 ![r] = [pc |-> "query", op |-> "quick_create_member",
                         args |-> <<first_name, last_name>>,
                         base |-> generated_id_without_loop(first_name, last_name),
                         id_lid |-> generated_id_without_loop(first_name, last_name),
                         counter |-> 1, err |-> "running", ret |-> None,
                         folder |-> None]]
    /\ UNCHANGED <<storeVars, fsVars, mentionVars, bulk, lastRun, result>>

\* lines 178-180: one evaluation of the loop condition, and the loop body
\* when a Member has the id
quick_create_member_query(r) ==
    /\ req[r].pc = "query"
    /\ req[r].op = "quick_create_member"
    /\ IF req[r].id_lid \in MemberIds
       THEN req' = [req EXCEPT
                      ![r].id_lid = req[r].base \o s_dash \o Decimal(req[r].counter),
                      ![r].counter = @ + 1]
       ELSE req' = [req EXCEPT ![r].pc = "insert"]
    /\ UNCHANGED <<storeVars, fsVars, mentionVars, bulk, lastRun, result>>

\* lines 182-188 and create_member: the insert with the id the loop ended on
quick_create_member_insert(r) ==
    LET a == req[r].args
        o == create_member_outcome(req[r].id_lid, a[1], a[2], 1)
    IN
    /\ req[r].pc = "insert"
    /\ req[r].op = "quick_create_member"
    /\ members' = o.members
    /\ req' = [req EXCEPT ![r].pc = "done", ![r].err = o.err,
                          ![r].ret = o.id_member]
    /\ UNCHANGED <<activities, roles, nextRoleId, mediaItems, nextMediaId,
                   mediaTypes, appearances, nextAppId, fsVars, mentionVars,
                   bulk, lastRun, result>>

\* blueprints/activity.py new, lines 29-55: the Activity object and the
\* folder name to try first
new_begin(r, title, year, folder) ==
    /\ CanBegin(r)
    /\ form_valid(title, year)
    /\ req' = [req EXCEPT
                 ![r] = [pc |-> "query", op |-> "new",
                         args |-> <<title, year, folder>>,
                         base |-> new_base_folder(title, year, folder),
                         id_lid |-> None, counter |-> 1, err |-> "running",
                         ret |-> None,
                         folder |-> new_base_folder(title, year, folder)]]
    /\ UNCHANGED <<storeVars, fsVars, mentionVars, bulk, lastRun, result>>

\* line 56: the loop condition; Activity has no query attribute
new_folder_query(r) ==
    /\ req[r].pc = "query"
    /\ req[r].op = "new"
    /\ req' = [req EXCEPT ![r].pc = "done", ![r].err = "AttributeError",
                          ![r].folder = None]
    /\ UNCHANGED <<storeVars, fsVars, mentionVars, bulk, lastRun, result>>

\* app.py activity_new, lines 130-131: the form is validated
activity_new_begin(r, title, year, folder) ==
    /\ CanBegin(r)
    /\ form_valid(title, year) /\ IsDigits(Strip(year))
    /\ req' = [req EXCEPT
                 ![r] = [pc |-> "create", op |-> "activity_new",
                         args |-> <<title, year, folder>>,
                         base |-> None, id_lid |-> None, counter |-> 1,
                         err |-> "running", ret |-> None, folder |-> None]]
    /\ UNCHANGED <<storeVars, fsVars, mentionVars, bulk, lastRun, result>>

\* app.py activity_new, lines 132-143: create_activity and the commit
activity_new_create(r) ==
    LET a == req[r].args
        id == a[2] \o s_dash \o First30(a[1])
        o == create_activity_outcome(id, a[1], ParseInt(Strip(a[2])),
                                     IF a[3] # <<>> THEN a[3] ELSE None)
    IN
    /\ req[r].pc = "create"
    /\ activities' = o.activities
    /\ req' = [req EXCEPT
                 ![r].pc = "done", ![r].err = o.err,
                 ![r].ret = IF o.err = "none" THEN Strip(id) ELSE None,
                 ![r].folder = IF o.err = "none" /\ Truthy(a[3])
                               THEN Strip(a[3]) ELSE None]
    /\ UNCHANGED <<members, roles, nextRoleId, mediaItems, nextMediaId,
                   mediaTypes, appearances, nextAppId, fsVars, mentionVars,
                   bulk, lastRun, result>>

InitR == InitP

QuickCreateMemberBegin ==
    /\ ops < MaxOpsR /\ ops' = ops + 1
    /\ \E r \in Requests : quick_create_member_begin(r, s_Bob, s_Lee)

QuickCreateMemberQuery ==
    \E r \in Requests : quick_create_member_query(r) /\ UNCHANGED ops

QuickCreateMemberInsert ==
    \E r \in Requests : quick_create_member_insert(r) /\ UNCHANGED ops

NewBegin ==
    /\ ops < MaxOpsR /\ ops' = ops + 1
    /\ \E r \in Requests, f \in FolderInputs : new_begin(r, s_gala, s_2024, f)

NewFolderQuery == \E r \in Requests : new_folder_query(r) /\ UNCHANGED ops

ActivityNewBegin ==
    /\ ops < MaxOpsR /\ ops' = ops + 1
    /\ \E r \in Requests, f \in FolderInputs :
          activity_new_begin(r, s_gala, s_2024, f)

ActivityNewCreate == \E r \in Requests : activity_new_create(r) /\ UNCHANGED ops

NextR == QuickCreateMemberBegin \/ QuickCreateMemberQuery
         \/ QuickCreateMemberInsert \/ NewBegin \/ NewFolderQuery
         \/ ActivityNewBegin \/ ActivityNewCreate

SpecR == InitR /\ [][NextR]_vars

\* both requests have ended and were the same request
SameRequestsEnded ==
    /\ \A r \in Requests : req[r].pc = "done"
    /\ req[1].op = req[2].op
    /\ req[1].args = req[2].args

IsCreateActivity(r) == req[r].op \in {"new", "activity_new"}

\* C30: two activity-creation requests with the same title and year both
\* end with an Activity and the two folder names differ; two
\* quick_create_member calls for the same name both succeed with distinct ids
C30_ConcurrentCreatesDistinct ==
    SameRequestsEnded =>
       /\ \A r \in Requests : req[r].err = "none"
       /\ IsCreateActivity(1) => /\ req[1].folder # None /\ req[2].folder # None
                                 /\ req[1].folder # req[2].folder
       /\ req[1].op = "quick_create_member" => req[1].ret # req[2].ret

\* what the store's primary key keeps: two calls that both succeeded have
\* distinct ids, and every id belongs to one Member
SucceededIdsDistinct ==
    /\ (SameRequestsEnded /\ req[1].op = "quick_create_member"
          /\ req[1].err = "none" /\ req[2].err = "none")
       => req[1].ret # req[2].ret
    /\ \A m1, m2 \in members : m1.id_member = m2.id_member => m1 = m2

====
